---- MODULE Spec2Model ----
(***************************************************************************)
(* Model of nssm_exec (src/bin/nssm_exec.rs): the per-service lifecycle    *)
(* reconciliation driven through the external nssm executable.             *)
(*                                                                         *)
(* An Option<T> of the source is a sequence of length at most one:         *)
(* None is <<>>, Some(x) is <<x>>.  A Result<T> is a record with the field *)
(* ok, and the field val (Ok) or msg (Err).  Captured bytes are sequences  *)
(* of numbers 0..255.                                                      *)
(***************************************************************************)
EXTENDS Integers, Sequences, FiniteSets, TLC

\* ---------------------------------------------------------------- bounds

\* Largest number of services in a configuration document.
MaxServices == 2

\* Largest explicitly configured poll count (an absent count is the default).
MaxPollCount == 1

\* ------------------------------------------------------------ plain data

None == <<>>

Some(x) == <<x>>

IsSome(o) == Len(o) = 1

Unwrap(o) == o[1]

UnwrapOr(o, d) == IF Len(o) = 1 THEN o[1] ELSE d

Ok(v) == [ok |-> TRUE, val |-> v]

Err(m) == [ok |-> FALSE, msg |-> m]

ServiceState ==
    {"ContinuePending", "PausePending", "Paused", "Running",
     "StartPending", "StopPending", "Stopped"}

PENDING_POLL_DEFAULT_MS == 500

PENDING_POLL_DEFAULT_COUNT == 5

\* The keys of STATE_MAP, as the bytes of their ASCII text.
TokContinuePending ==
    <<83,69,82,86,73,67,69,95,67,79,78,84,73,78,85,69,95,80,69,78,68,73,78,71>>

TokPausePending ==
    <<83,69,82,86,73,67,69,95,80,65,85,83,69,95,80,69,78,68,73,78,71>>

TokPaused == <<83,69,82,86,73,67,69,95,80,65,85,83,69,68>>

TokRunning == <<83,69,82,86,73,67,69,95,82,85,78,78,73,78,71>>

TokStartPending ==
    <<83,69,82,86,73,67,69,95,83,84,65,82,84,95,80,69,78,68,73,78,71>>

TokStopPending ==
    <<83,69,82,86,73,67,69,95,83,84,79,80,95,80,69,78,68,73,78,71>>

TokStopped == <<83,69,82,86,73,67,69,95,83,84,79,80,80,69,68>>

\* STATE_MAP as its set of (key, value) pairs.
STATE_MAP ==
    { <<TokContinuePending, "ContinuePending">>,
      <<TokPausePending, "PausePending">>,
      <<TokPaused, "Paused">>,
      <<TokRunning, "Running">>,
      <<TokStartPending, "StartPending">>,
      <<TokStopPending, "StopPending">>,
      <<TokStopped, "Stopped">> }

\* -------------------------------------------------------- pure functions

\* state_from_str taking the first key the text starts with.
state_from_str_prefix(status) ==
    LET Starts(e) ==
            Len(e[1]) <= Len(status) /\ SubSeq(status, 1, Len(e[1])) = e[1]
    IN  IF \E e \in STATE_MAP : Starts(e)
        THEN Ok((CHOOSE e \in STATE_MAP : Starts(e))[2])
        ELSE Err("Unable to obtain valid state from status string")

\* state_from_str: exact lookup of the text in STATE_MAP.
state_from_str(status) ==
    IF \E e \in STATE_MAP : e[1] = status
    THEN Ok((CHOOSE e \in STATE_MAP : e[1] = status)[2])
    ELSE Err("Unable to obtain valid state from status string")


\* remove_zeros keeping the first byte of every pair of bytes, as if every
\* character came in two bytes.
remove_zeros_pairs(bytes) ==
    [i \in 1..((Len(bytes) + 1) \div 2) |-> bytes[2 * i - 1]]

\* remove_zeros: the bytes that are not 0, in their order.
remove_zeros(bytes) == SelectSeq(bytes, LAMBDA c : c # 0)

\* std::str::from_utf8 succeeds exactly on well-formed UTF-8.
RECURSIVE Utf8From(_, _)
Utf8From(b, i) ==
    LET n == Len(b)
        Cont(j) == j <= n /\ b[j] >= 128 /\ b[j] <= 191
        In(j, lo, hi) == j <= n /\ b[j] >= lo /\ b[j] <= hi
    IN  IF i > n THEN TRUE
        ELSE IF b[i] < 128 THEN Utf8From(b, i + 1)
        ELSE IF b[i] >= 194 /\ b[i] <= 223
             THEN Cont(i + 1) /\ Utf8From(b, i + 2)
        ELSE IF b[i] = 224
             THEN In(i + 1, 160, 191) /\ Cont(i + 2) /\ Utf8From(b, i + 3)
        ELSE IF (b[i] >= 225 /\ b[i] <= 236) \/ b[i] = 238 \/ b[i] = 239
             THEN Cont(i + 1) /\ Cont(i + 2) /\ Utf8From(b, i + 3)
        ELSE IF b[i] = 237
             THEN In(i + 1, 128, 159) /\ Cont(i + 2) /\ Utf8From(b, i + 3)
        ELSE IF b[i] = 240
             THEN In(i + 1, 144, 191) /\ Cont(i + 2) /\ Cont(i + 3)
                  /\ Utf8From(b, i + 4)
        ELSE IF b[i] >= 241 /\ b[i] <= 243
             THEN Cont(i + 1) /\ Cont(i + 2) /\ Cont(i + 3)
                  /\ Utf8From(b, i + 4)
        ELSE IF b[i] = 244
             THEN In(i + 1, 128, 143) /\ Cont(i + 2) /\ Cont(i + 3)
                  /\ Utf8From(b, i + 4)
        ELSE FALSE

from_utf8(bytes) ==
    IF Utf8From(bytes, 1) THEN Ok(bytes)
    ELSE Err("Unable to get convert from utf8 into status string")

\* The one-byte White_Space characters str::trim strips (tab, LF, VT, FF,
\* CR, space); the tool's output holds no multi-byte white space.
IsWhitespace(c) == c \in {9, 10, 11, 12, 13, 32}

RECURSIVE TrimStart(_)
TrimStart(s) ==
    IF s # <<>> /\ IsWhitespace(Head(s)) THEN TrimStart(Tail(s)) ELSE s

RECURSIVE TrimEnd(_)
TrimEnd(s) ==
    IF s # <<>> /\ IsWhitespace(s[Len(s)])
    THEN TrimEnd(SubSeq(s, 1, Len(s) - 1)) ELSE s

trim(s) == TrimEnd(TrimStart(s))

\* run_cmd: the shell could not be created, or it exited with a failure
\* status, or the command's Output is returned.
run_cmd(reply) ==
    IF ~reply.spawned THEN Err("Unable to create command")
    ELSE IF ~reply.success THEN Err("exit code")
    ELSE Ok(reply.stdout)

\* run_nssm_status_cmd_extract_status applied to the tool's reply.
run_nssm_status_cmd_extract_status(reply) ==
    LET out == run_cmd(reply)
    IN  IF ~out.ok THEN out
        ELSE LET stdout == remove_zeros(out.val)
                 text == from_utf8(stdout)
             IN  IF ~text.ok THEN text ELSE state_from_str(trim(text.val))

\* merge_other_conf deciding by the block instead of by the field: a present
\* lhs is the only block asked.
merge_other_conf_by_block(lhs, rhs, chooser) ==
    IF IsSome(lhs) THEN Unwrap(lhs)[chooser]
    ELSE IF IsSome(rhs) THEN Unwrap(rhs)[chooser]
    ELSE None

\* merge_other_conf: the chooser applied to lhs when lhs is present and has
\* the field, else to rhs.  A chooser is the name of the OtherConfig field its
\* closure reads with as_ref().
merge_other_conf(lhs, rhs, chooser) ==
    LET l == IF IsSome(lhs) THEN Unwrap(lhs)[chooser] ELSE None
        r == IF IsSome(rhs) THEN Unwrap(rhs)[chooser] ELSE None
    IN  IF IsSome(l) THEN l ELSE r

\* ------------------------------------------------- configuration document

\* A path is the sequence of its components; an absolute path starts with the
\* root "/".  The text of a path on a command line is that sequence.

\* The directory the program is run in.
Cwd == <<"/", "srv", "nssm">>

\* The components of rest resolved one by one onto the absolute path done.
RECURSIVE Resolve(_, _)
Resolve(done, rest) ==
    IF rest = <<>> THEN done
    ELSE IF Head(rest) = "." THEN Resolve(done, Tail(rest))
    ELSE IF Head(rest) = ".."
         THEN Resolve(IF Len(done) > 1 THEN SubSeq(done, 1, Len(done) - 1)
                      ELSE done, Tail(rest))
    ELSE Resolve(Append(done, Head(rest)), Tail(rest))

\* Path::canonicalize of a path that exists and crosses no link: the absolute
\* path without "." and "..".
canonicalize(path) ==
    IF path # <<>> /\ Head(path) = "/" THEN Resolve(<<"/">>, Tail(path))
    ELSE Resolve(Cwd, path)

ServiceNames == <<"Foo", "Bar", "Baz", "Qux">>

PollCounts == {None} \cup {Some(c) : c \in 0..MaxPollCount}

\* The OtherConfig blocks of the documents: a block that only asks for the
\* start, and a block that sets every field (refusing the start, with an
\* account that has no password).
StartBlock == [deps |-> None, start_on_create |-> Some(TRUE), account |-> None]

FullBlock ==
    [deps |-> Some("Bar"), start_on_create |-> Some(FALSE),
     account |-> Some([user |-> "svc", password |-> ""])]

\* The FileConfig documents.  services holds the names of the declared
\* services in document order; the other fields of a Service are drawn when
\* services.iter() yields it to the closure.  These documents leave both
\* poll intervals out.
FileConfigs ==
    [pending_stop_poll_ms : {None},
     pending_stop_poll_count : PollCounts,
     pending_start_poll_ms : {None},
     pending_start_poll_count : PollCounts,
     global : {None, Some(StartBlock)},
     services : {SubSeq(ServiceNames, 1, n) : n \in 1..MaxServices}]

Services(name) ==
    [name : {name}, path : {<<"..", "bin", "app.exe">>}, startup_dir : {None},
     args : {None}, description : {None},
     other : {None, Some(StartBlock), Some(FullBlock)}]
        \cup
    [name : {name}, path : {<<"..", "bin", "app.exe">>}, startup_dir : {Some(<<"work">>)},
     args : {Some("-v")}, description : {Some("text")},
     other : {None, Some(StartBlock), Some(FullBlock)}]

\* Every OtherConfig block whose dependency list, when set, is deps and whose
\* account, when set, is account.
OtherConfigs(deps, account) ==
    [deps : {None, Some(deps)},
     start_on_create : {None, Some(TRUE), Some(FALSE)},
     account : {None, Some(account)}]

\* The blocks of a service: its account has no password.
ServiceBlocks == OtherConfigs("Bar", [user |-> "svc", password |-> ""])

\* The global blocks: another dependency list and another account.
GlobalBlocks == OtherConfigs("Baz Qux", [user |-> "admin", password |-> "pw"])

\* The documents with one service, a stop poll of one attempt, a start poll of
\* two and any global block.
OptionFileConfigs ==
    [pending_stop_poll_ms : {None},
     pending_stop_poll_count : {Some(1)},
     pending_start_poll_ms : {None},
     pending_start_poll_count : {Some(2)},
     global : {None} \cup {Some(o) : o \in GlobalBlocks},
     services : {<<"Foo">>}]

\* The services of those documents: any per-service block.
AnyServices(name) ==
    [name : {name}, path : {<<"..", "bin", "app.exe">>}, startup_dir : {None},
     args : {None}, description : {None},
     other : {None} \cup {Some(o) : o \in ServiceBlocks}]
        \cup
    [name : {name}, path : {<<"..", "bin", "app.exe">>},
     startup_dir : {Some(<<"work">>)}, args : {Some("-v")},
     description : {Some("text")},
     other : {None} \cup {Some(o) : o \in ServiceBlocks}]

\* ------------------------------------------------------ external tool

\* What the shell hands back for one command line.
CmdReplies ==
    [spawned : {TRUE}, success : BOOLEAN, stdout : {<<>>}]
        \cup [spawned : {FALSE}, success : {FALSE}, stdout : {<<>>}]

\* nssm prints wide characters: every byte is followed by a zero byte.
RECURSIVE Wide(_)
Wide(s) == IF s = <<>> THEN <<>> ELSE <<Head(s), 0>> \o Wide(Tail(s))

\* What nssm may print for a status command: known states, wide or not, with
\* a line end, an unknown word, bytes that are no UTF-8.
StatusOutputs ==
    { Wide(TokStopped \o <<13, 10>>),
      Wide(TokRunning \o <<13, 10>>),
      TokStopPending \o <<10>>,
      <<115,101,114,118,105,99,101,95,115,116,111,112,112,101,100>>,
      <<255, 254>> }

\* What the shell hands back for a status command line.
StatusReplies ==
    [spawned : {TRUE}, success : {TRUE}, stdout : StatusOutputs]
        \cup [spawned : BOOLEAN, success : {FALSE}, stdout : {<<>>}]

\* What run_nssm_status_cmd_extract_status can return for the tool's replies.
StatusResults == {run_nssm_status_cmd_extract_status(r) : r \in StatusReplies}

\* The tool's replies to a status command, each with what
\* run_nssm_status_cmd_extract_status makes of it.
StatusRuns ==
    {[reply |-> r, state |-> run_nssm_status_cmd_extract_status(r)] :
        r \in StatusReplies}

\* The documents with one service that starts, every pair of poll counts and
\* each poll interval left out or set, to different values.
PollFileConfigs ==
    [pending_stop_poll_ms : {None, Some(10)},
     pending_stop_poll_count : PollCounts,
     pending_start_poll_ms : {None, Some(20)},
     pending_start_poll_count : PollCounts,
     global : {Some(StartBlock)},
     services : {<<"Foo">>}]

\* The documents whose polls have at least one attempt.
WellBehavedFileConfigs ==
    [pending_stop_poll_ms : {None},
     pending_stop_poll_count : {None, Some(1)},
     pending_start_poll_ms : {None},
     pending_start_poll_count : {None, Some(1)},
     global : {None, Some(StartBlock)},
     services : {SubSeq(ServiceNames, 1, n) : n \in 1..MaxServices}]

\* The seven keys of STATE_MAP.
Tokens ==
    {TokContinuePending, TokPausePending, TokPaused, TokRunning,
     TokStartPending, TokStopPending, TokStopped}

\* A wider choice of what nssm may print: every token bare, wide with a line
\* end and narrow inside white space; a token in lower case, in mixed case,
\* with a character after it, with a character before it, cut short, with a
\* space inside; white space only; nothing; bytes that are no UTF-8.
AnyStatusOutputs ==
    Tokens
        \cup {Wide(t \o <<13, 10>>) : t \in Tokens}
        \cup {<<32, 9>> \o t \o <<32, 13, 10>> : t \in Tokens}
        \cup { <<115,101,114,118,105,99,101,95,115,116,111,112,112,101,100>>,
               <<83,101,114,118,105,99,101,95,83,116,111,112,112,101,100>>,
               TokStopped \o <<88>>,
               <<88>> \o TokRunning,
               SubSeq(TokStopPending, 1, 12),
               SubSeq(TokPaused, 1, 8) \o <<32>> \o SubSeq(TokPaused, 9, 14),
               <<32, 13, 10>>,
               <<>>,
               <<255, 254>> }

AnyStatusReplies ==
    [spawned : {TRUE}, success : {TRUE}, stdout : AnyStatusOutputs]
        \cup [spawned : BOOLEAN, success : {FALSE}, stdout : {<<>>}]

AnyStatusRuns ==
    {[reply |-> r, state |-> run_nssm_status_cmd_extract_status(r)] :
        r \in AnyStatusReplies}

\* The documents with one service, a stop poll of two attempts and a start
\* poll of one.
StatusFileConfigs ==
    [pending_stop_poll_ms : {None},
     pending_stop_poll_count : {Some(2)},
     pending_start_poll_ms : {None},
     pending_start_poll_count : {Some(1)},
     global : {Some(StartBlock)},
     services : {<<"Foo">>}]



\* s with a zero byte before every byte.
RECURSIVE ZeroBefore(_)
ZeroBefore(s) == IF s = <<>> THEN <<>> ELSE <<0, Head(s)>> \o ZeroBefore(Tail(s))

\* What nssm may print, with zero bytes in every kind of place: three tokens
\* with a line end, each narrow, with a zero after every byte, with a zero
\* before every byte, with zeros at both ends and with one zero inside; a
\* wide token in lower case; zeros only; nothing; bytes that are no UTF-8
\* around a zero.
ZeroStatusOutputs ==
    LET lines == {t \o <<13, 10>> : t \in {TokStopped, TokRunning, TokStopPending}}
    IN  lines
            \cup {Wide(s) : s \in lines}
            \cup {ZeroBefore(s) : s \in lines}
            \cup {<<0, 0>> \o s \o <<0>> : s \in lines}
            \cup {SubSeq(s, 1, 7) \o <<0>> \o SubSeq(s, 8, Len(s)) : s \in lines}
            \cup { Wide(<<115,101,114,118,105,99,101,95,115,116,111,112,112,101,100>>),
                   <<0>>,
                   <<0, 0, 0>>,
                   <<>>,
                   <<255, 0, 254>> }

ZeroStatusReplies ==
    [spawned : {TRUE}, success : {TRUE}, stdout : ZeroStatusOutputs]
        \cup [spawned : BOOLEAN, success : {FALSE}, stdout : {<<>>}]

ZeroStatusRuns ==
    {[reply |-> r, state |-> run_nssm_status_cmd_extract_status(r)] :
        r \in ZeroStatusReplies}

\* The global block that sets every field and asks for the start.
EveryBlock ==
    [deps |-> Some("Baz Qux"), start_on_create |-> Some(TRUE),
     account |-> Some([user |-> "admin", password |-> "pw"])]

\* The documents with that global block and every pair of poll counts.
BoundedFileConfigs ==
    [pending_stop_poll_ms : {None},
     pending_stop_poll_count : PollCounts,
     pending_start_poll_ms : {None},
     pending_start_poll_count : PollCounts,
     global : {Some(EveryBlock)},
     services : {SubSeq(ServiceNames, 1, n) : n \in 1..MaxServices}]

\* ---------------------------------------------------------------- state

VARIABLES
    pc,            \* position of main/run: "logger", "read", "nssm_exec",
                   \* "exit"
    exit_code,     \* argument of process::exit, once called
    file_config,   \* the configuration document
    idx,           \* number of services the services iterator has yielded
    service,       \* the Service the closure is running on
    step,          \* position inside nssm_exec's loop and closure
    init_state,    \* the state the closure's first status query gave, or
                   \* "Absent" when it gave an Err ("Unknown" before it)
    last_status,   \* result of the status query, while it is the last
                   \* command that was run
    last_reply,    \* what the shell handed back for the last command line
    poll,          \* the iterators and counters of poll_service_state_until
    result,        \* value the closure returned
    cmds,          \* command lines the current closure call has run
    warnings,      \* warnings the current closure call has logged
    order,         \* service indexes in the order their commands were run
    outcomes       \* the [OK] / [FAILED] lines logged so far

vars ==
    <<pc, exit_code, file_config, idx, service, step, init_state, last_status,
      last_reply, poll, result, cmds, warnings, order, outcomes>>

\* No call of poll_service_state_until is in progress or has just ended.
NoPoll ==
    [a |-> 0, b |-> 1, flag |-> FALSE, interval |-> 0, count |-> 0,
     expected |-> "Stopped", queries |-> 0, sleeps |-> 0, waited |-> 0,
     results |-> <<>>, state |-> "none", mark |-> 0]

Init ==
    /\ pc = "logger"
    /\ exit_code = None
    /\ file_config \in FileConfigs
    /\ idx = 0
    /\ service = None
    /\ step = "idle"
    /\ init_state = "Unknown"
    /\ last_status = None
    /\ last_reply = None
    /\ poll = NoPoll
    /\ result = None
    /\ cmds = <<>>
    /\ warnings = <<>>
    /\ order = <<>>
    /\ outcomes = <<>>

\* ----------------------------------------------------------- main / run

\* run: log4rs::init_file or simple_logger::init; an Err leaves through
\* main's Err arm, process::exit(1).
InitLogger ==
    /\ pc = "logger"
    /\ \E ok \in BOOLEAN :
         IF ok THEN pc' = "read" /\ exit_code' = exit_code
         ELSE pc' = "exit" /\ exit_code' = Some(1)
    /\ UNCHANGED <<file_config, idx, service, step, init_state, last_status,
                   last_reply, poll, result, cmds, warnings, order, outcomes>>

\* run: file::get, String::from_utf8 and toml::from_str of the document, then
\* the head of nssm_exec up to the for loop.
LoadConfig ==
    /\ pc = "read"
    /\ \E read \in BOOLEAN, utf8 \in BOOLEAN, toml \in BOOLEAN :
         IF read /\ utf8 /\ toml
         THEN pc' = "nssm_exec" /\ exit_code' = exit_code /\ step' = "next"
         ELSE pc' = "exit" /\ exit_code' = Some(1) /\ step' = step
    /\ UNCHANGED <<file_config, idx, service, init_state, last_status,
                   last_reply, poll, result, cmds, warnings, order, outcomes>>

\* The poll intervals, in milliseconds.
pending_stop_poll_interval ==
    UnwrapOr(file_config.pending_stop_poll_ms, PENDING_POLL_DEFAULT_MS)

pending_start_poll_interval ==
    UnwrapOr(file_config.pending_start_poll_ms, PENDING_POLL_DEFAULT_MS)

pending_stop_poll_count ==
    UnwrapOr(file_config.pending_stop_poll_count, PENDING_POLL_DEFAULT_COUNT)

pending_start_poll_count ==
    UnwrapOr(file_config.pending_start_poll_count, PENDING_POLL_DEFAULT_COUNT)

\* ----------------------------------------------------- command plumbing

\* The command line as its words: run_nssm_cmd's "{nssm_path} {cmd}" without
\* the executable path.
StatusCmd(name) == <<"status", name>>

StopCmd(name) == <<"stop", name>>

RemoveCmd(name) == <<"remove", name, "confirm">>

\* InstallCmd with the path made canonical first.
InstallCmdCanon(svc) == <<"install", svc.name, canonicalize(svc.path)>>

InstallCmd(svc) == <<"install", svc.name, svc.path>>

SetCmd(name, field, param) == <<"set", name, field, param>>

StartCmd(name) == <<"start", name>>

\* The merged options of the closure's service.
merged_other(svc) ==
    [deps |-> merge_other_conf(svc.other, file_config.global, "deps"),
     start_on_create |->
         merge_other_conf(svc.other, file_config.global, "start_on_create"),
     account |-> merge_other_conf(svc.other, file_config.global, "account")]

\* PasswordWord without the branch for the empty password.
PasswordWordBare(account) == account.password

\* The password word of the ObjectName command.
PasswordWord(account) ==
    IF account.password # "" THEN account.password ELSE "\"\""

AcctCmd(name, account) ==
    <<"set", name, "ObjectName", account.user, PasswordWord(account)>>

\* The closure's statements after install, in program order, and whether the
\* closure runs each for svc.

\* ConfigureSteps with AppParameters set before AppDirectory.
ConfigureStepsArgsFirst ==
    <<"args", "app_dir", "description", "deps", "account", "start">>

ConfigureSteps ==
    <<"app_dir", "args", "description", "deps", "account", "start">>

\* Runs with the start made whenever start_on_create is set, whatever its
\* value.
RunsStartIfSet(s, svc) ==
    CASE s = "app_dir" -> IsSome(svc.startup_dir)
      [] s = "args" -> IsSome(svc.args)
      [] s = "description" -> IsSome(svc.description)
      [] s = "deps" -> IsSome(merged_other(svc).deps)
      [] s = "account" -> IsSome(merged_other(svc).account)
      [] s = "start" -> IsSome(merged_other(svc).start_on_create)

Runs(s, svc) ==
    CASE s = "app_dir" -> IsSome(svc.startup_dir)
      [] s = "args" -> IsSome(svc.args)
      [] s = "description" -> IsSome(svc.description)
      [] s = "deps" -> IsSome(merged_other(svc).deps)
      [] s = "account" -> IsSome(merged_other(svc).account)
      [] s = "start" -> merged_other(svc).start_on_create = Some(TRUE)

\* Position of the closure after its k-th configure statement: the next
\* statement it runs, or its final Ok(()).
StepAfter(k, svc) ==
    LET later == {j \in (k + 1)..Len(ConfigureSteps) : Runs(ConfigureSteps[j], svc)}
    IN  IF later = {} THEN "return_ok"
        ELSE ConfigureSteps[CHOOSE j \in later : \A i \in later : j <= i]

StepIndex(s) == CHOOSE k \in 1..Len(ConfigureSteps) : ConfigureSteps[k] = s

\* Appending i to order unless it is already its last element.
Ordered(i) == IF order # <<>> /\ order[Len(order)] = i THEN order ELSE Append(order, i)

\* The closure is at statement s of services[idx].
At(s) == pc = "nssm_exec" /\ step = s

Svc == Unwrap(service)

\* ZipName with the names taken from the back of the document.
ZipNameReversed(i) ==
    file_config.services[Len(file_config.services) + 1 - i]

\* The name the zip adaptor pairs with the closure's i-th result.
ZipName(i) == file_config.services[i]

\* Return with the results gathered first: nothing is logged as the closure
\* returns.
ReturnCollecting(r) ==
    /\ result' = Some(r)
    /\ outcomes' = outcomes
    /\ step' = "next"

\* The closure returns r: the zip adaptor pairs it with the name and the body
\* of the for loop logs the [OK] or [FAILED] line (lines 532-543); the loop is
\* back at the zip.  of is the service the closure ran on.
Return(r) ==
    /\ result' = Some(r)
    /\ outcomes' = Append(outcomes,
                          [name |-> ZipName(idx), ok |-> r.ok, of |-> Svc.name])
    /\ step' = "next"


\* The closure is still running and goes to statement s.
Goto(s) == step' = s /\ result' = result /\ outcomes' = outcomes

\* The closure goes on to statement s; "return_ok" is its final Ok(()) at
\* line 530.
Proceed(s) == IF s = "return_ok" THEN Return(Ok("unit")) ELSE Goto(s)

\* Bookkeeping of one command line issued for the current service.
Issue(argv) == cmds' = Append(cmds, argv) /\ order' = Ordered(idx)

\* ------------------------------------------------ nssm_exec: the closure

\* NextService with services.iter() walking the document backwards.
NextServiceReversed ==
    /\ At("next")
    /\ idx < Len(file_config.services)
    /\ idx' = idx + 1
    /\ \E svc \in Services(file_config.services[Len(file_config.services) - idx]) : service' = Some(svc)
    /\ step' = "status"
    /\ init_state' = "Unknown"
    /\ last_status' = None
    /\ last_reply' = None
    /\ poll' = NoPoll
    /\ result' = None
    /\ cmds' = <<>>
    /\ warnings' = <<>>
    /\ UNCHANGED <<pc, exit_code, file_config, order, outcomes>>

\* The for loop asks the zip for its next pair: services.iter() yields the
\* next service and the closure is entered (line 392).
NextService ==
    /\ At("next")
    /\ idx < Len(file_config.services)
    /\ idx' = idx + 1
    /\ \E svc \in Services(file_config.services[idx + 1]) : service' = Some(svc)
    /\ step' = "status"
    /\ init_state' = "Unknown"
    /\ last_status' = None
    /\ last_reply' = None
    /\ poll' = NoPoll
    /\ result' = None
    /\ cmds' = <<>>
    /\ warnings' = <<>>
    /\ UNCHANGED <<pc, exit_code, file_config, order, outcomes>>

\* NextService over the documents of OptionFileConfigs.
NextServiceAny ==
    /\ At("next")
    /\ idx < Len(file_config.services)
    /\ idx' = idx + 1
    /\ \E svc \in AnyServices(file_config.services[idx + 1]) : service' = Some(svc)
    /\ step' = "status"
    /\ init_state' = "Unknown"
    /\ last_status' = None
    /\ last_reply' = None
    /\ poll' = NoPoll
    /\ result' = None
    /\ cmds' = <<>>
    /\ warnings' = <<>>
    /\ UNCHANGED <<pc, exit_code, file_config, order, outcomes>>

\* QueryStatus with a failed query taken as a service that is there.
QueryStatusRemoving ==
    /\ At("status")
    /\ \E run \in StatusRuns :
         LET state == run.state
         IN  /\ init_state' = IF state.ok THEN state.val ELSE "Absent"
             /\ last_status' = Some(state)
             /\ last_reply' = Some(run.reply)
             /\ step' = IF ~state.ok THEN "remove"
                        ELSE IF state.val # "Stopped" THEN "stop"
                        ELSE "remove"
    /\ Issue(StatusCmd(Svc.name))
    /\ UNCHANGED <<pc, exit_code, file_config, idx, service, poll, result,
                   warnings, outcomes>>

\* QueryStatus with the remove left out for a service found Stopped.
QueryStatusKeepingStopped ==
    /\ At("status")
    /\ \E run \in StatusRuns :
         LET state == run.state
         IN  /\ init_state' = IF state.ok THEN state.val ELSE "Absent"
             /\ last_status' = Some(state)
             /\ last_reply' = Some(run.reply)
             /\ step' = IF ~state.ok THEN "install"
                        ELSE IF state.val # "Stopped" THEN "stop"
                        ELSE "install"
    /\ Issue(StatusCmd(Svc.name))
    /\ UNCHANGED <<pc, exit_code, file_config, idx, service, poll, result,
                   warnings, outcomes>>

\* QueryStatus over the replies of AnyStatusReplies.
QueryStatusAny ==
    /\ At("status")
    /\ \E run \in AnyStatusRuns :
         LET state == run.state
         IN  /\ init_state' = IF state.ok THEN state.val ELSE "Absent"
             /\ last_status' = Some(state)
             /\ last_reply' = Some(run.reply)
             /\ step' = IF ~state.ok THEN "install"
                        ELSE IF state.val # "Stopped" THEN "stop"
                        ELSE "remove"
    /\ Issue(StatusCmd(Svc.name))
    /\ UNCHANGED <<pc, exit_code, file_config, idx, service, poll, result,
                   warnings, outcomes>>


\* QueryStatus over the replies of ZeroStatusReplies.
QueryStatusZeros ==
    /\ At("status")
    /\ \E run \in ZeroStatusRuns :
         LET state == run.state
         IN  /\ init_state' = IF state.ok THEN state.val ELSE "Absent"
             /\ last_status' = Some(state)
             /\ last_reply' = Some(run.reply)
             /\ step' = IF ~state.ok THEN "install"
                        ELSE IF state.val # "Stopped" THEN "stop"
                        ELSE "remove"
    /\ Issue(StatusCmd(Svc.name))
    /\ UNCHANGED <<pc, exit_code, file_config, idx, service, poll, result,
                   warnings, outcomes>>

\* QueryStatus with the query's Err returned by the closure.
QueryStatusPropagating ==
    /\ At("status")
    /\ \E run \in StatusRuns :
         LET state == run.state
         IN  /\ init_state' = IF state.ok THEN state.val ELSE "Absent"
             /\ last_status' = Some(state)
             /\ last_reply' = Some(run.reply)
             /\ IF ~state.ok THEN Return(state)
                ELSE IF state.val # "Stopped" THEN Goto("stop")
                ELSE Goto("remove")
    /\ Issue(StatusCmd(Svc.name))
    /\ UNCHANGED <<pc, exit_code, file_config, idx, service, poll, warnings>>


\* QueryStatus with the stop made for every service that is there, stopped
\* or not.
QueryStatusStoppingStopped ==
    /\ At("status")
    /\ \E run \in StatusRuns :
         LET state == run.state
         IN  /\ init_state' = IF state.ok THEN state.val ELSE "Absent"
             /\ last_status' = Some(state)
             /\ last_reply' = Some(run.reply)
             /\ step' = IF ~state.ok THEN "install" ELSE "stop"
    /\ Issue(StatusCmd(Svc.name))
    /\ UNCHANGED <<pc, exit_code, file_config, idx, service, poll, result,
                   warnings, outcomes>>

\* Line 395: the first status query; an Err skips the whole removal block.
QueryStatus ==
    /\ At("status")
    /\ \E run \in StatusRuns :
         LET state == run.state
         IN  /\ init_state' = IF state.ok THEN state.val ELSE "Absent"
             /\ last_status' = Some(state)
             /\ last_reply' = Some(run.reply)
             /\ step' = IF ~state.ok THEN "install"
                        ELSE IF state.val # "Stopped" THEN "stop"
                        ELSE "remove"
    /\ Issue(StatusCmd(Svc.name))
    /\ UNCHANGED <<pc, exit_code, file_config, idx, service, poll, result,
                   warnings, outcomes>>

\* A fresh call of poll_service_state_until: both ranges at their start.
\* a and b are the next values of status_check_iter and between_delay_iter,
\* flag is the interleave's flag; queries, sleeps and results count and list
\* what the two closures have done (results holds the booleans of the check
\* closure) and waited is the time slept in all; state is "running", then
\* "ok" or "timeout" as any() is decided; mark is the number of command lines
\* run when the call was made (the stop or start command included).
NewPoll(interval, count, expected) ==
    [a |-> 0, b |-> 1, flag |-> FALSE, interval |-> interval, count |-> count,
     expected |-> expected, queries |-> 0, sleeps |-> 0, waited |-> 0,
     results |-> <<>>, state |-> "running", mark |-> Len(cmds) + 1]

\* StopService with the stop command's error returned by the closure.
StopServiceFatal ==
    /\ At("stop")
    /\ \E reply \in CmdReplies :
         /\ last_reply' = Some(reply)
         /\ IF run_cmd(reply).ok
            THEN Goto("stop_poll")
            ELSE Return(Err("Service stopping returned error"))
    /\ warnings' = warnings
    /\ Issue(StopCmd(Svc.name))
    /\ poll' = NewPoll(pending_stop_poll_interval, pending_stop_poll_count,
                     "Stopped")
    /\ last_status' = None
    /\ UNCHANGED <<pc, exit_code, file_config, idx, service, init_state>>

\* Lines 399-413: the stop command; its error is only a warning.  The call of
\* poll_service_state_until follows.
StopService ==
    /\ At("stop")
    /\ \E reply \in CmdReplies :
         /\ last_reply' = Some(reply)
         /\ warnings' = IF run_cmd(reply).ok THEN warnings
                        ELSE Append(warnings, "Service stopping returned error")
    /\ Issue(StopCmd(Svc.name))
    /\ poll' = NewPoll(pending_stop_poll_interval, pending_stop_poll_count,
                     "Stopped")
    /\ step' = "stop_poll"
    /\ last_status' = None
    /\ UNCHANGED <<pc, exit_code, file_config, idx, service, init_state,
                   result, outcomes>>

\* Lines 425-430.  The frame of the stop poll is gone by now.
RemoveService ==
    /\ At("remove")
    /\ \E reply \in CmdReplies :
         /\ last_reply' = Some(reply)
         /\ IF run_cmd(reply).ok
            THEN Goto("install")
            ELSE Return(Err("Unable to remove"))
    /\ Issue(RemoveCmd(Svc.name))
    /\ last_status' = None
    /\ poll' = NoPoll
    /\ UNCHANGED <<pc, exit_code, file_config, idx, service, init_state, warnings>>

\* Lines 435-444.
InstallService ==
    /\ At("install")
    /\ \E reply \in CmdReplies :
         /\ last_reply' = Some(reply)
         /\ IF run_cmd(reply).ok
            THEN Proceed(StepAfter(0, Svc))
            ELSE Return(Err("Unable to install"))
    /\ Issue(InstallCmd(Svc))
    /\ last_status' = None
    /\ UNCHANGED <<pc, exit_code, file_config, idx, service, init_state,
                   poll, warnings>>

\* SetStep with the set command's error dropped: the closure goes on.
SetStepContinuing(s, argv, msg) ==
    /\ At(s)
    /\ \E reply \in CmdReplies :
         /\ last_reply' = Some(reply)
         /\ Proceed(StepAfter(StepIndex(s), Svc))
    /\ Issue(argv)
    /\ last_status' = None
    /\ UNCHANGED <<pc, exit_code, file_config, idx, service, init_state,
                   poll, warnings>>

\* One set command of the closure: statement s runs argv and fails with msg.
SetStep(s, argv, msg) ==
    /\ At(s)
    /\ \E reply \in CmdReplies :
         /\ last_reply' = Some(reply)
         /\ IF run_cmd(reply).ok
            THEN Proceed(StepAfter(StepIndex(s), Svc))
            ELSE Return(Err(msg))
    /\ Issue(argv)
    /\ last_status' = None
    /\ UNCHANGED <<pc, exit_code, file_config, idx, service, init_state,
                   poll, warnings>>

\* Lines 447-457.
SetAppDirectory ==
    SetStep("app_dir",
            SetCmd(Svc.name, "AppDirectory", Unwrap(Svc.startup_dir)),
            "Unable to set startup directory for")

\* Line 459.
SetAppParameters ==
    SetStep("args", SetCmd(Svc.name, "AppParameters", Unwrap(Svc.args)),
            "Unable to set 'AppParameters' for")

\* Lines 461-466.
SetDescription ==
    SetStep("description",
            SetCmd(Svc.name, "Description", Unwrap(Svc.description)),
            "Unable to set 'Description' for")

\* Lines 483-488.
SetDependOnService ==
    SetStep("deps",
            SetCmd(Svc.name, "DependOnService", Unwrap(merged_other(Svc).deps)),
            "Unable to set 'DependOnService' for")

\* Lines 490-506.
SetObjectName ==
    SetStep("account", AcctCmd(Svc.name, Unwrap(merged_other(Svc).account)),
            "Unable to set the username and password for")

\* StartService with the start poll given the stop poll's interval and count.
StartServiceStopParams ==
    /\ At("start")
    /\ \E reply \in CmdReplies :
         /\ last_reply' = Some(reply)
         /\ warnings' = IF run_cmd(reply).ok THEN warnings
                        ELSE Append(warnings, "Service starting returned error")
    /\ Issue(StartCmd(Svc.name))
    /\ poll' = NewPoll(pending_stop_poll_interval, pending_stop_poll_count,
                     "Running")
    /\ step' = "start_poll"
    /\ last_status' = None
    /\ UNCHANGED <<pc, exit_code, file_config, idx, service, init_state,
                   result, outcomes>>

\* StartService with the start command's error returned by the closure.
StartServiceFatal ==
    /\ At("start")
    /\ \E reply \in CmdReplies :
         /\ last_reply' = Some(reply)
         /\ IF run_cmd(reply).ok
            THEN Goto("start_poll")
            ELSE Return(Err("Service starting returned error"))
    /\ warnings' = warnings
    /\ Issue(StartCmd(Svc.name))
    /\ poll' = NewPoll(pending_start_poll_interval, pending_start_poll_count,
                     "Running")
    /\ last_status' = None
    /\ UNCHANGED <<pc, exit_code, file_config, idx, service, init_state>>

\* Lines 508-518: the start command; its error is only a warning.  The call
\* of poll_service_state_until follows.
StartService ==
    /\ At("start")
    /\ \E reply \in CmdReplies :
         /\ last_reply' = Some(reply)
         /\ warnings' = IF run_cmd(reply).ok THEN warnings
                        ELSE Append(warnings, "Service starting returned error")
    /\ Issue(StartCmd(Svc.name))
    /\ poll' = NewPoll(pending_start_poll_interval, pending_start_poll_count,
                     "Running")
    /\ step' = "start_poll"
    /\ last_status' = None
    /\ UNCHANGED <<pc, exit_code, file_config, idx, service, init_state,
                   result, outcomes>>

\* ------------------------------------------ poll_service_state_until

\* InterleaveNext with between_delay_iter as 0..poll_count: one sleep too many.
InterleaveNextTrailingDelay(p) ==
    LET a_has == p.a < p.count
        b_has == p.b <= p.count
    IN  IF ~p.flag
        THEN (IF a_has THEN "check" ELSE IF b_has THEN "delay" ELSE "none")
        ELSE (IF b_has THEN "delay" ELSE IF a_has THEN "check" ELSE "none")

\* InterleaveNext with status_check_iter as 0..=poll_count: one query too many.
InterleaveNextInclusive(p) ==
    LET a_has == p.a <= p.count
        b_has == p.b < p.count
    IN  IF ~p.flag
        THEN (IF a_has THEN "check" ELSE IF b_has THEN "delay" ELSE "none")
        ELSE (IF b_has THEN "delay" ELSE IF a_has THEN "check" ELSE "none")

\* What itertools::interleave(status_check_iter, between_delay_iter) yields
\* next: it flips its flag, asks the iterator the flag selects and, when that
\* one is exhausted, the other.  status_check_iter is 0..poll_count and
\* between_delay_iter is 1..poll_count.
InterleaveNext(p) ==
    LET a_has == p.a < p.count
        b_has == p.b < p.count
    IN  IF ~p.flag
        THEN (IF a_has THEN "check" ELSE IF b_has THEN "delay" ELSE "none")
        ELSE (IF b_has THEN "delay" ELSE IF a_has THEN "check" ELSE "none")

Polling == pc = "nssm_exec" /\ step \in {"stop_poll", "start_poll"}

\* poll_service_state_until returned Ok(()): line 425 after the stop poll,
\* line 530 after the start poll.
AfterPoll == IF step = "stop_poll" THEN "remove" ELSE "return_ok"

\* PollCheck with the status query's error returned by the closure.
PollCheckPropagating ==
    /\ Polling
    /\ InterleaveNext(poll) = "check"
    /\ \E run \in StatusRuns :
         LET status == run.state
             reached == IF status.ok THEN status.val = poll.expected ELSE FALSE
         IN  /\ last_status' = Some(status)
             /\ last_reply' = Some(run.reply)
             /\ poll' = [poll EXCEPT !.a = @ + 1, !.flag = ~@,
                                     !.queries = @ + 1,
                                     !.results = Append(@, reached),
                                     !.state =
                                         IF reached THEN "ok" ELSE @]
             /\ IF reached THEN Proceed(AfterPoll)
                ELSE IF ~status.ok THEN Return(Err(status.msg))
                ELSE Goto(step)
    /\ Issue(StatusCmd(Svc.name))
    /\ UNCHANGED <<pc, exit_code, file_config, idx, service, init_state,
                   warnings>>


\* PollCheck with every state the tool prints taken as the expected one.
PollCheckAnyState ==
    /\ Polling
    /\ InterleaveNext(poll) = "check"
    /\ \E run \in StatusRuns :
         LET status == run.state
             reached == status.ok
         IN  /\ last_status' = Some(status)
             /\ last_reply' = Some(run.reply)
             /\ poll' = [poll EXCEPT !.a = @ + 1, !.flag = ~@,
                                     !.queries = @ + 1,
                                     !.results = Append(@, reached),
                                     !.state =
                                         IF reached THEN "ok" ELSE @]
             /\ IF reached THEN Proceed(AfterPoll)
                ELSE Goto(step)
    /\ Issue(StatusCmd(Svc.name))
    /\ UNCHANGED <<pc, exit_code, file_config, idx, service, init_state,
                   warnings>>

\* Lines 317-321 under any(): one status query; an Err counts as false.
PollCheck ==
    /\ Polling
    /\ InterleaveNext(poll) = "check"
    /\ \E run \in StatusRuns :
         LET status == run.state
             reached == IF status.ok THEN status.val = poll.expected ELSE FALSE
         IN  /\ last_status' = Some(status)
             /\ last_reply' = Some(run.reply)
             /\ poll' = [poll EXCEPT !.a = @ + 1, !.flag = ~@,
                                     !.queries = @ + 1,
                                     !.results = Append(@, reached),
                                     !.state =
                                         IF reached THEN "ok" ELSE @]
             /\ IF reached THEN Proceed(AfterPoll)
                ELSE Goto(step)
    /\ Issue(StatusCmd(Svc.name))
    /\ UNCHANGED <<pc, exit_code, file_config, idx, service, init_state,
                   warnings>>

\* Lines 324-333 under any(): one sleep, yielding false.
PollDelay ==
    /\ Polling
    /\ InterleaveNext(poll) = "delay"
    /\ poll' = [poll EXCEPT !.b = @ + 1, !.flag = ~@, !.sleeps = @ + 1,
                            !.waited = @ + poll.interval]
    /\ UNCHANGED <<pc, exit_code, file_config, idx, service, step, init_state,
                   last_status, last_reply, result, cmds, warnings, order,
                   outcomes>>

\* PollTimeout without the bail: the closure goes on.
PollTimeoutIgnored ==
    /\ Polling
    /\ InterleaveNext(poll) = "none"
    /\ poll' = [poll EXCEPT !.state = "timeout"]
    /\ Proceed(AfterPoll)
    /\ UNCHANGED <<pc, exit_code, file_config, idx, service, init_state,
                   last_status, last_reply, cmds, warnings, order>>


\* PollTimeout with the poll made again from its start instead of the bail.
PollTimeoutRetrying ==
    /\ Polling
    /\ InterleaveNext(poll) = "none"
    /\ poll' = [poll EXCEPT !.a = 0, !.b = 1, !.flag = FALSE]
    /\ Goto(step)
    /\ UNCHANGED <<pc, exit_code, file_config, idx, service, init_state,
                   last_status, last_reply, cmds, warnings, order>>

\* Lines 335-343: both iterators are exhausted, any() is false, the bail.
PollTimeout ==
    /\ Polling
    /\ InterleaveNext(poll) = "none"
    /\ poll' = [poll EXCEPT !.state = "timeout"]
    /\ Return(Err("Unable to wait for service name to stop completely"))
    /\ UNCHANGED <<pc, exit_code, file_config, idx, service, init_state,
                   last_status, last_reply, cmds, warnings, order>>

\* ------------------------------------------------ nssm_exec: the for loop

\* Finish with the loop left at the first failed service.
FinishOnFailure ==
    /\ At("next")
    /\ \/ idx = Len(file_config.services)
       \/ idx >= 1 /\ ~outcomes[idx].ok
    /\ pc' = "exit"
    /\ exit_code' = Some(0)
    /\ step' = "done"
    /\ service' = None
    /\ init_state' = "Unknown"
    /\ last_status' = None
    /\ last_reply' = None
    /\ poll' = NoPoll
    /\ result' = None
    /\ cmds' = <<>>
    /\ warnings' = <<>>
    /\ UNCHANGED <<file_config, idx, order, outcomes>>

\* Finish with a failed service turned into a failing exit code.
FinishFailing ==
    /\ At("next")
    /\ idx = Len(file_config.services)
    /\ pc' = "exit"
    /\ exit_code' =
           IF \E i \in DOMAIN outcomes : ~outcomes[i].ok THEN Some(1)
           ELSE Some(0)
    /\ step' = "done"
    /\ service' = None
    /\ init_state' = "Unknown"
    /\ last_status' = None
    /\ last_reply' = None
    /\ poll' = NoPoll
    /\ result' = None
    /\ cmds' = <<>>
    /\ warnings' = <<>>
    /\ UNCHANGED <<file_config, idx, order, outcomes>>

\* Lines 545, 580-584 and 604-608: the zip is exhausted, nssm_exec and run
\* return Ok(()), main exits with 0; the last closure call's frame is gone.
Finish ==
    /\ At("next")
    /\ idx = Len(file_config.services)
    /\ pc' = "exit"
    /\ exit_code' = Some(0)
    /\ step' = "done"
    /\ service' = None
    /\ init_state' = "Unknown"
    /\ last_status' = None
    /\ last_reply' = None
    /\ poll' = NoPoll
    /\ result' = None
    /\ cmds' = <<>>
    /\ warnings' = <<>>
    /\ UNCHANGED <<file_config, idx, order, outcomes>>

Next ==
    \/ InitLogger
    \/ LoadConfig
    \/ NextService
    \/ QueryStatus
    \/ StopService
    \/ PollCheck
    \/ PollDelay
    \/ PollTimeout
    \/ RemoveService
    \/ InstallService
    \/ SetAppDirectory
    \/ SetAppParameters
    \/ SetDescription
    \/ SetDependOnService
    \/ SetObjectName
    \/ StartService
    \/ Finish

Spec == Init /\ [][Next]_vars

\* The program on the documents of OptionFileConfigs.
InitOptions ==
    /\ pc = "logger"
    /\ exit_code = None
    /\ file_config \in OptionFileConfigs
    /\ idx = 0
    /\ service = None
    /\ step = "idle"
    /\ init_state = "Unknown"
    /\ last_status = None
    /\ last_reply = None
    /\ poll = NoPoll
    /\ result = None
    /\ cmds = <<>>
    /\ warnings = <<>>
    /\ order = <<>>
    /\ outcomes = <<>>

NextOptions ==
    \/ InitLogger
    \/ LoadConfig
    \/ NextServiceAny
    \/ QueryStatus
    \/ StopService
    \/ PollCheck
    \/ PollDelay
    \/ PollTimeout
    \/ RemoveService
    \/ InstallService
    \/ SetAppDirectory
    \/ SetAppParameters
    \/ SetDescription
    \/ SetDependOnService
    \/ SetObjectName
    \/ StartService
    \/ Finish

SpecOptions == InitOptions /\ [][NextOptions]_vars

\* The program on the documents of StatusFileConfigs, with the wider choice
\* of replies to the closure's first status command.
InitStatus ==
    /\ pc = "logger"
    /\ exit_code = None
    /\ file_config \in StatusFileConfigs
    /\ idx = 0
    /\ service = None
    /\ step = "idle"
    /\ init_state = "Unknown"
    /\ last_status = None
    /\ last_reply = None
    /\ poll = NoPoll
    /\ result = None
    /\ cmds = <<>>
    /\ warnings = <<>>
    /\ order = <<>>
    /\ outcomes = <<>>

NextStatus ==
    \/ InitLogger
    \/ LoadConfig
    \/ NextService
    \/ QueryStatusAny
    \/ StopService
    \/ PollCheck
    \/ PollDelay
    \/ PollTimeout
    \/ RemoveService
    \/ InstallService
    \/ SetAppDirectory
    \/ SetAppParameters
    \/ SetDescription
    \/ SetDependOnService
    \/ SetObjectName
    \/ StartService
    \/ Finish

SpecStatus == InitStatus /\ [][NextStatus]_vars


\* The program with the first status query answered from ZeroStatusReplies.
NextZeros ==
    \/ InitLogger
    \/ LoadConfig
    \/ NextService
    \/ QueryStatusZeros
    \/ StopService
    \/ PollCheck
    \/ PollDelay
    \/ PollTimeout
    \/ RemoveService
    \/ InstallService
    \/ SetAppDirectory
    \/ SetAppParameters
    \/ SetDescription
    \/ SetDependOnService
    \/ SetObjectName
    \/ StartService
    \/ Finish

SpecZeros == InitStatus /\ [][NextZeros]_vars

\* The program on the documents of PollFileConfigs.
InitPoll ==
    /\ pc = "logger"
    /\ exit_code = None
    /\ file_config \in PollFileConfigs
    /\ idx = 0
    /\ service = None
    /\ step = "idle"
    /\ init_state = "Unknown"
    /\ last_status = None
    /\ last_reply = None
    /\ poll = NoPoll
    /\ result = None
    /\ cmds = <<>>
    /\ warnings = <<>>
    /\ order = <<>>
    /\ outcomes = <<>>

SpecPoll == InitPoll /\ [][Next]_vars


\* The program on the documents of BoundedFileConfigs; every step the program
\* can take is taken in the end, as each shell command returns.
InitTerminates ==
    /\ pc = "logger"
    /\ exit_code = None
    /\ file_config \in BoundedFileConfigs
    /\ idx = 0
    /\ service = None
    /\ step = "idle"
    /\ init_state = "Unknown"
    /\ last_status = None
    /\ last_reply = None
    /\ poll = NoPoll
    /\ result = None
    /\ cmds = <<>>
    /\ warnings = <<>>
    /\ order = <<>>
    /\ outcomes = <<>>

SpecTerminates == InitTerminates /\ [][Next]_vars /\ WF_vars(Next)

\* ------------------------------------------- a well-behaved external tool

\* The state the tool keeps of one service: none, or the installed path, the
\* parameters set since the install and whether the service runs; "broken"
\* is a command the tool cannot carry out (on a service that is not there, or
\* an install over one that is).
NssmParams ==
    {"AppDirectory", "AppParameters", "Description", "DependOnService",
     "ObjectName"}

NssmAbsent ==
    [kind |-> "absent", path |-> <<>>, params |-> [f \in NssmParams |-> None],
     state |-> "Stopped"]

NssmBroken == [NssmAbsent EXCEPT !.kind = "broken"]

\* What one command line does to the tool's state t of its service.
NssmRun(t, argv) ==
    IF t.kind = "broken" \/ argv[1] = "status" THEN t
    ELSE IF argv[1] = "install"
         THEN IF t.kind = "absent"
              THEN [NssmAbsent EXCEPT !.kind = "service", !.path = argv[3]]
              ELSE NssmBroken
    ELSE IF t.kind = "absent" THEN NssmBroken
    ELSE CASE argv[1] = "stop" -> [t EXCEPT !.state = "Stopped"]
           [] argv[1] = "start" -> [t EXCEPT !.state = "Running"]
           [] argv[1] = "remove" -> NssmAbsent
           [] argv[1] = "set" ->
                  [t EXCEPT !.params[argv[3]] = Some(SubSeq(argv, 4, Len(argv)))]

\* The tool's state after the command lines argvs, run in order from t.
RECURSIVE NssmRunAll(_, _)
NssmRunAll(t, argvs) ==
    IF argvs = <<>> THEN t
    ELSE NssmRunAll(NssmRun(t, Head(argvs)), Tail(argvs))

\* The state of svc's service that the document asks for.
Configured(svc) ==
    LET m == merged_other(svc)
        Word(o) == IF o = None THEN None ELSE Some(<<o[1]>>)
    IN  [kind |-> "service", path |-> svc.path,
         params |->
             [f \in NssmParams |->
                 CASE f = "AppDirectory" -> Word(svc.startup_dir)
                   [] f = "AppParameters" -> Word(svc.args)
                   [] f = "Description" -> Word(svc.description)
                   [] f = "DependOnService" -> Word(m.deps)
                   [] f = "ObjectName" ->
                          IF m.account = None THEN None
                          ELSE Some(<<m.account[1].user,
                                      PasswordWord(m.account[1])>>)],
         state |-> IF m.start_on_create = Some(TRUE) THEN "Running"
                   ELSE "Stopped"]

\* The tool's state of the closure's service when the closure was entered:
\* none when the first status command failed, else the state a successful
\* run over the same document has left, which the status command reports.
NssmBefore ==
    IF init_state \in {"Unknown", "Absent"} THEN NssmAbsent ELSE Configured(Svc)

\* The tool's state of the closure's service now.
NssmNow == NssmRunAll(NssmBefore, cmds)

\* The tool carries out every command; a status command on a service that is
\* not there fails, on one that is there it prints the service's state.
CommandDone == last_reply # None /\ run_cmd(last_reply[1]).ok

WellBehavedQueryStatus ==
    /\ QueryStatus
    /\ \/ last_status' = Some(Err("exit code"))
       \/ last_status' = Some(Ok(Configured(Svc).state))

WellBehavedStopService == StopService /\ CommandDone'

WellBehavedRemoveService == RemoveService /\ CommandDone'

WellBehavedInstallService == InstallService /\ CommandDone'

WellBehavedSetAppDirectory == SetAppDirectory /\ CommandDone'

WellBehavedSetAppParameters == SetAppParameters /\ CommandDone'

WellBehavedSetDescription == SetDescription /\ CommandDone'

WellBehavedSetDependOnService == SetDependOnService /\ CommandDone'

WellBehavedSetObjectName == SetObjectName /\ CommandDone'

WellBehavedStartService == StartService /\ CommandDone'

\* A status query of a poll prints a state, and the expected one at the
\* latest on the poll's last attempt.
WellBehavedPollCheck ==
    /\ PollCheck
    /\ last_status'[1].ok
    /\ poll'.queries = poll.count => poll'.state = "ok"

InitWellBehaved ==
    /\ pc = "logger"
    /\ exit_code = None
    /\ file_config \in WellBehavedFileConfigs
    /\ idx = 0
    /\ service = None
    /\ step = "idle"
    /\ init_state = "Unknown"
    /\ last_status = None
    /\ last_reply = None
    /\ poll = NoPoll
    /\ result = None
    /\ cmds = <<>>
    /\ warnings = <<>>
    /\ order = <<>>
    /\ outcomes = <<>>

NextWellBehaved ==
    \/ InitLogger
    \/ LoadConfig
    \/ NextService
    \/ WellBehavedQueryStatus
    \/ WellBehavedStopService
    \/ WellBehavedPollCheck
    \/ PollDelay
    \/ WellBehavedRemoveService
    \/ WellBehavedInstallService
    \/ WellBehavedSetAppDirectory
    \/ WellBehavedSetAppParameters
    \/ WellBehavedSetDescription
    \/ WellBehavedSetDependOnService
    \/ WellBehavedSetObjectName
    \/ WellBehavedStartService
    \/ Finish

\* The program run against the well-behaved tool, each service not there or
\* as a successful run has left it.
SpecWellBehaved == InitWellBehaved /\ [][NextWellBehaved]_vars


\* ------------------------------------------- the earlier program, main.rs

\* The status texts main.rs compares with, as the bytes of their ASCII text.
SERVICE_STOP_PENDING_STATUS == TokStopPending

SERVICE_STOPPED_STATUS == TokStopped

\* run_nssm_status_cmd_extract_status of main.rs: the trimmed text of the
\* tool's output, not looked up in any table.
legacy_run_nssm_status_cmd_extract_status(reply) ==
    LET out == run_cmd(reply)
    IN  IF ~out.ok THEN out
        ELSE LET text == from_utf8(remove_zeros(out.val))
             IN  IF ~text.ok THEN text ELSE Ok(trim(text.val))

\* The tool's replies to a status command, each with what main.rs makes of
\* it.
LegacyStatusRuns ==
    {[reply |-> r, status |-> legacy_run_nssm_status_cmd_extract_status(r)] :
        r \in StatusReplies}

\* The documents of main.rs: there is no start poll.
LegacyFileConfigs ==
    [pending_stop_poll_ms : {None},
     pending_stop_poll_count : PollCounts,
     pending_start_poll_ms : {None},
     pending_start_poll_count : {None},
     global : {None, Some(StartBlock)},
     services : {SubSeq(ServiceNames, 1, n) : n \in 1..MaxServices}]

\* A fresh call of poll_service_status_until_empty: the range 0..poll_count
\* at its start; a is its next value.
LegacyNewPoll ==
    [NoPoll EXCEPT !.interval = pending_stop_poll_interval,
                   !.count = pending_stop_poll_count,
                   !.expected = "NotStopPending",
                   !.state = "running",
                   !.mark = Len(cmds) + 1]

\* main.rs lines 302-305: the first status query; an Err skips the removal
\* block, SERVICE_STOPPED skips the stop command but not the wait.
LegacyQueryStatus ==
    /\ At("status")
    /\ \E run \in LegacyStatusRuns :
         LET status == run.status
             stopped == status.ok /\ status.val = SERVICE_STOPPED_STATUS
         IN  /\ init_state' = IF ~status.ok THEN "Absent"
                              ELSE IF stopped THEN "Stopped" ELSE "NotStopped"
             /\ last_status' = Some(status)
             /\ last_reply' = Some(run.reply)
             /\ step' = IF ~status.ok THEN "install"
                        ELSE IF stopped THEN "legacy_poll" ELSE "stop"
             /\ poll' = IF stopped THEN LegacyNewPoll ELSE poll
    /\ Issue(StatusCmd(Svc.name))
    /\ UNCHANGED <<pc, exit_code, file_config, idx, service, result,
                   warnings, outcomes>>

\* main.rs lines 305-312: the stop command; its error ends the closure.
LegacyStopService ==
    /\ At("stop")
    /\ \E reply \in CmdReplies :
         /\ last_reply' = Some(reply)
         /\ IF run_cmd(reply).ok
            THEN Goto("legacy_poll") /\ poll' = LegacyNewPoll
            ELSE Return(Err("Unable to stop")) /\ poll' = poll
    /\ Issue(StopCmd(Svc.name))
    /\ last_status' = None
    /\ UNCHANGED <<pc, exit_code, file_config, idx, service, init_state,
                   warnings>>

\* main.rs lines 236-239 under any(): one status query; the wait is over when
\* the text is anything but SERVICE_STOP_PENDING, and an Err counts as false.
LegacyPollQuery ==
    /\ At("legacy_poll")
    /\ poll.a < poll.count
    /\ \E run \in LegacyStatusRuns :
         LET status == run.status
             has_stopped ==
                 IF status.ok THEN status.val # SERVICE_STOP_PENDING_STATUS
                 ELSE FALSE
         IN  /\ last_status' = Some(status)
             /\ last_reply' = Some(run.reply)
             /\ poll' = [poll EXCEPT !.a = @ + 1, !.queries = @ + 1,
                                     !.results = Append(@, has_stopped),
                                     !.state =
                                         IF has_stopped THEN "ok" ELSE @]
             /\ step' = IF has_stopped THEN "remove" ELSE "legacy_sleep"
    /\ Issue(StatusCmd(Svc.name))
    /\ UNCHANGED <<pc, exit_code, file_config, idx, service, init_state,
                   result, warnings, outcomes>>

\* main.rs lines 241-248: the sleep of the same closure call, made whenever
\* its query did not end the wait.
LegacyPollSleep ==
    /\ At("legacy_sleep")
    /\ poll' = [poll EXCEPT !.sleeps = @ + 1, !.waited = @ + poll.interval]
    /\ step' = "legacy_poll"
    /\ UNCHANGED <<pc, exit_code, file_config, idx, service, init_state,
                   last_status, last_reply, result, cmds, warnings, order,
                   outcomes>>

\* main.rs lines 254-259: the range is exhausted, any() is false, the bail.
LegacyPollTimeout ==
    /\ At("legacy_poll")
    /\ poll.a >= poll.count
    /\ poll' = [poll EXCEPT !.state = "timeout"]
    /\ Return(Err("Unable to wait for service name to stop completely"))
    /\ UNCHANGED <<pc, exit_code, file_config, idx, service, init_state,
                   last_status, last_reply, cmds, warnings, order>>

\* main.rs lines 332-350: the path is made canonical, which fails for a path
\* that is not there, then install.
LegacyInstallService ==
    /\ At("install")
    /\ \E found \in BOOLEAN, reply \in CmdReplies :
         IF ~found
         THEN /\ Return(Err("Unable to canonicalize path"))
              /\ UNCHANGED <<cmds, order, last_reply>>
         ELSE /\ Issue(<<"install", Svc.name, canonicalize(Svc.path)>>)
              /\ last_reply' = Some(reply)
              /\ IF run_cmd(reply).ok
                 THEN Proceed(StepAfter(0, Svc))
                 ELSE Return(Err("Unable to install"))
    /\ last_status' = None
    /\ UNCHANGED <<pc, exit_code, file_config, idx, service, init_state,
                   poll, warnings>>

\* main.rs lines 353-371: the same for the startup directory.
LegacySetAppDirectory ==
    /\ At("app_dir")
    /\ \E found \in BOOLEAN, reply \in CmdReplies :
         IF ~found
         THEN /\ Return(Err("Unable to canonicalize startup directory path"))
              /\ UNCHANGED <<cmds, order, last_reply>>
         ELSE /\ Issue(SetCmd(Svc.name, "AppDirectory",
                              canonicalize(Unwrap(Svc.startup_dir))))
              /\ last_reply' = Some(reply)
              /\ IF run_cmd(reply).ok
                 THEN Proceed(StepAfter(1, Svc))
                 ELSE Return(Err("Unable to set startup directory for"))
    /\ last_status' = None
    /\ UNCHANGED <<pc, exit_code, file_config, idx, service, init_state,
                   poll, warnings>>

\* main.rs lines 421-430: the start command; its error ends the closure and
\* no wait follows.
LegacyStartService ==
    /\ At("start")
    /\ \E reply \in CmdReplies :
         /\ last_reply' = Some(reply)
         /\ IF run_cmd(reply).ok
            THEN Return(Ok("unit"))
            ELSE Return(Err("Unable to start"))
    /\ Issue(StartCmd(Svc.name))
    /\ last_status' = None
    /\ UNCHANGED <<pc, exit_code, file_config, idx, service, init_state,
                   poll, warnings>>

InitLegacy ==
    /\ pc = "logger"
    /\ exit_code = None
    /\ file_config \in LegacyFileConfigs
    /\ idx = 0
    /\ service = None
    /\ step = "idle"
    /\ init_state = "Unknown"
    /\ last_status = None
    /\ last_reply = None
    /\ poll = NoPoll
    /\ result = None
    /\ cmds = <<>>
    /\ warnings = <<>>
    /\ order = <<>>
    /\ outcomes = <<>>

\* run, the for loop, the remove and the set commands other than AppDirectory
\* are the same statements in both programs.
NextLegacy ==
    \/ InitLogger
    \/ LoadConfig
    \/ NextService
    \/ LegacyQueryStatus
    \/ LegacyStopService
    \/ LegacyPollQuery
    \/ LegacyPollSleep
    \/ LegacyPollTimeout
    \/ RemoveService
    \/ LegacyInstallService
    \/ LegacySetAppDirectory
    \/ SetAppParameters
    \/ SetDescription
    \/ SetDependOnService
    \/ SetObjectName
    \/ LegacyStartService
    \/ Finish

\* The program of main.rs.
SpecLegacy == InitLegacy /\ [][NextLegacy]_vars

\* ----------------------------------------------------------- properties

\* Number of declared services.
N == Len(file_config.services)

\* The sequence 1, 2, ..., k.
Upto(k) == [i \in 1..k |-> i]

\* The run got through the whole for loop.
RunCompleted == pc = "exit" /\ step = "done"

\* The closure has returned and its outcome is logged; the frame still shows.
Returned == pc = "nssm_exec" /\ step = "next" /\ idx >= 1

Failed(m) == result = Some(Err(m))

WaitMsg == "Unable to wait for service name to stop completely"

Words(k) == {cmds[j][1] : j \in 1..k}

\* The first word of every command line run so far by the closure.
AllWords == Words(Len(cmds))

\* The service was found in a state other than Stopped.
FoundNotStopped == init_state \notin {"Unknown", "Absent", "Stopped"}

\* C1: every declared service has its reconciliation started, by its status
\* query, whatever the outcomes of the services before it: the services whose
\* commands were run are 1, 2, ... without a gap, up to the closure in
\* progress, and up to the last declared service once the loop is over.
C1_FailureIsolation ==
    /\ RunCompleted => order = Upto(N)
    /\ (pc = "nssm_exec" /\ step = "status") => order = Upto(idx - 1)
    /\ (pc = "nssm_exec" /\ step # "status") => order = Upto(idx)
    /\ cmds # <<>> => cmds[1] = StatusCmd(file_config.services[idx])

\* C1 witness: the last of several services has had its status query issued
\* although every service before it failed.
C1_Witness ==
    /\ pc = "nssm_exec" /\ N >= 2 /\ idx = N
    /\ \A i \in 1..(idx - 1) : ~outcomes[i].ok
    /\ cmds = <<StatusCmd(file_config.services[idx])>>

\* C2: one outcome per declared service, in document order, each under the
\* name of the service whose closure call produced it, and all of them there
\* when the run is over.
C2_OutcomePerService ==
    /\ RunCompleted => Len(outcomes) = N
    /\ pc = "nssm_exec" => Len(outcomes) = IF step = "next" THEN idx ELSE idx - 1
    /\ \A i \in DOMAIN outcomes :
         /\ outcomes[i].name = file_config.services[i]
         /\ outcomes[i].of = outcomes[i].name
    /\ Returned => outcomes[idx].ok = Unwrap(result).ok

\* C2 witness: a finished run over two services, the first OK and the second
\* FAILED.
C2_Witness ==
    /\ RunCompleted /\ N = 2
    /\ outcomes[1].ok /\ ~outcomes[2].ok

\* C3: commands are run for one service at a time in document order: every
\* command of the closure in progress names the idx-th declared service, all
\* services before it have returned and been reported, and the order of the
\* services never goes back, whatever the dependency names say.
C3_SequentialDocumentOrder ==
    /\ \A k \in DOMAIN cmds : cmds[k][2] = file_config.services[idx]
    /\ service # None => Svc.name = file_config.services[idx]
    /\ cmds # <<>> =>
         /\ order[Len(order)] = idx
         /\ Len(outcomes) >= idx - 1
         /\ \A i \in 1..(idx - 1) : outcomes[i].of = file_config.services[i]
    /\ \A j, k \in DOMAIN order : j < k => order[j] < order[k]

\* C3 witness: Foo is declared before Bar and depends on Bar; Foo's
\* DependOnService is set while no command has been run for Bar.
C3_Witness ==
    /\ pc = "nssm_exec" /\ N >= 2 /\ idx = 1 /\ order = <<1>>
    /\ file_config.services[2] = "Bar"
    /\ \E k \in DOMAIN cmds : cmds[k] = SetCmd("Foo", "DependOnService", "Bar")

\* C4: once the for loop is reached the exit code is 0 whatever the outcomes;
\* exit code 1 is only given before any service was looked at.
C4_ExitCode ==
    /\ RunCompleted => exit_code = Some(0)
    /\ pc = "nssm_exec" => exit_code = None
    /\ exit_code = Some(1) =>
         pc = "exit" /\ step = "idle" /\ idx = 0 /\ outcomes = <<>> /\ order = <<>>

\* C4 witness: the run is over with exit code 0 and every service FAILED.
C4_Witness ==
    /\ RunCompleted /\ exit_code = Some(0) /\ N >= 2
    /\ Len(outcomes) = N
    /\ \A i \in DOMAIN outcomes : ~outcomes[i].ok

\* k times FALSE.
AllFalse(k) == [i \in 1..k |-> FALSE]

\* C5: for a poll count of at least 1, a poll that succeeds has made exactly k
\* status queries and k-1 sleeps, k being the first attempt that gave the
\* expected state; a poll that fails has made exactly poll_count queries, none
\* of which gave the expected state, and poll_count-1 sleeps.  The commands run
\* since the call are exactly those status queries.
C5_PollQueriesAndSleeps ==
    poll.state # "none" /\ poll.count >= 1 =>
      LET k == poll.queries
      IN  /\ Len(poll.results) = k
          /\ Len(cmds) = poll.mark + k
          /\ \A j \in (poll.mark + 1)..Len(cmds) : cmds[j] = StatusCmd(Svc.name)
          /\ poll.state = "ok" =>
               /\ k \in 1..poll.count
               /\ poll.results = Append(AllFalse(k - 1), TRUE)
               /\ poll.sleeps = k - 1
          /\ poll.state = "timeout" =>
               /\ k = poll.count
               /\ poll.results = AllFalse(k)
               /\ poll.sleeps = k - 1
          /\ poll.state = "running" =>
               /\ k <= poll.count
               /\ poll.results = AllFalse(k)
               /\ poll.sleeps \in {k - 1, k} /\ poll.sleeps <= poll.count - 1

\* C5 witness: a poll of five attempts has succeeded on the third.
C5_Witness ==
    /\ poll.state = "ok" /\ poll.count = PENDING_POLL_DEFAULT_COUNT
    /\ poll.queries = 3 /\ poll.sleeps = 2

\* C6: a poll called with poll_count 0 times out with no status query and no
\* sleep; a service found not stopped under a stop poll count of 0 has its stop
\* command run and then fails, with no command after the stop.
C6_ZeroPollCount ==
    /\ (poll.state # "none" /\ poll.count = 0) =>
         /\ poll.queries = 0 /\ poll.sleeps = 0 /\ poll.results = <<>>
         /\ poll.state \in {"running", "timeout"}
         /\ Len(cmds) = poll.mark
    /\ (pc = "nssm_exec" /\ pending_stop_poll_count = 0 /\ FoundNotStopped
        /\ step # "stop") =>
         /\ cmds = <<StatusCmd(Svc.name), StopCmd(Svc.name)>>
         /\ \/ step = "stop_poll" /\ result = None
            \/ Returned /\ Failed(WaitMsg) /\ ~outcomes[idx].ok

\* C6 witness: a running service under a stop poll count of 0 has failed right
\* after its stop command.
C6_Witness ==
    /\ Returned /\ file_config.pending_stop_poll_count = Some(0)
    /\ init_state = "Running" /\ Failed(WaitMsg)
    /\ poll.state = "timeout" /\ poll.queries = 0
    /\ cmds = <<StatusCmd(Svc.name), StopCmd(Svc.name)>>

\* The messages a failed status query carries.
StatusErrMsgs ==
    {"Unable to create command", "exit code",
     "Unable to get convert from utf8 into status string",
     "Unable to obtain valid state from status string"}

\* The last status query gave an Err.
LastQueryFailed == last_status # None /\ ~Unwrap(last_status).ok

\* C7: a status query that fails inside a poll uses up one attempt and counts
\* as "expected state not reached": the poll goes on, or has timed out with
\* all its attempts used; the closure never returns the query's own error.
C7_PollQueryErrorNotPropagated ==
    /\ (poll.state # "none" /\ poll.queries >= 1 /\ LastQueryFailed) =>
         /\ poll.queries = poll.a /\ Len(poll.results) = poll.a
         /\ poll.results[poll.a] = FALSE
         /\ \/ poll.state = "running" /\ Polling /\ result = None
            \/ /\ poll.state = "timeout" /\ poll.queries = poll.count
               /\ Returned /\ Failed(WaitMsg)
    /\ \A m \in StatusErrMsgs : ~Failed(m)

\* C7 witness: the first query of a poll gave output that is no UTF-8, and the
\* poll is still running with attempts left.
C7_Witness ==
    /\ Polling /\ poll.state = "running" /\ poll.queries = 1
    /\ last_status = Some(Err("Unable to get convert from utf8 into status string"))
    /\ poll.count >= 2 /\ InterleaveNext(poll) = "delay"

\* x when c holds, as a sequence.
SeqIf(c, x) == IF c THEN <<x>> ELSE <<>>

\* The command lines after install that the configuration asks for.
ConfiguredCmds(svc) ==
    LET m == merged_other(svc)
    IN  SeqIf(IsSome(svc.startup_dir),
              SetCmd(svc.name, "AppDirectory", UnwrapOr(svc.startup_dir, "")))
        \o SeqIf(IsSome(svc.args),
                 SetCmd(svc.name, "AppParameters", UnwrapOr(svc.args, "")))
        \o SeqIf(IsSome(svc.description),
                 SetCmd(svc.name, "Description", UnwrapOr(svc.description, "")))
        \o SeqIf(IsSome(m.deps),
                 SetCmd(svc.name, "DependOnService", UnwrapOr(m.deps, "")))
        \o SeqIf(IsSome(m.account),
                 <<"set", svc.name, "ObjectName">>
                     \o (IF IsSome(m.account)
                         THEN <<m.account[1].user,
                                IF m.account[1].password = "" THEN "\"\""
                                ELSE m.account[1].password>>
                         ELSE <<>>))
        \o SeqIf(m.start_on_create = Some(TRUE), StartCmd(svc.name))

\* The messages of a failed install, set command or poll.
InstallOrLaterMsgs ==
    {"Unable to install", "Unable to set startup directory for",
     "Unable to set 'AppParameters' for", "Unable to set 'Description' for",
     "Unable to set 'DependOnService' for",
     "Unable to set the username and password for", WaitMsg}

\* C8: when the first status query fails, no stop, no remove and no stop-poll
\* query is run; the second command is install; a status query after the first
\* comes only after the start command; the closure fails only by install, a
\* set command or the start poll, and when it succeeds it has run install and
\* every configured command, in order.
C8_AbsentSkipsStopAndRemove ==
    (pc = "nssm_exec" /\ init_state = "Absent") =>
      /\ AllWords \cap {"stop", "remove"} = {}
      /\ Len(cmds) = 1 <=> step = "install"
      /\ Len(cmds) >= 2 => cmds[2] = InstallCmd(Svc)
      /\ poll.state # "none" => poll.expected = "Running"
      /\ \A k \in 2..Len(cmds) :
           cmds[k][1] = "status" => "start" \in Words(k - 1)
      /\ (Returned /\ ~Unwrap(result).ok) =>
           \E m \in InstallOrLaterMsgs : Failed(m)
      /\ (Returned /\ Unwrap(result).ok) =>
           LET want == <<StatusCmd(Svc.name), InstallCmd(Svc)>>
                           \o ConfiguredCmds(Svc)
           IN  /\ Len(cmds) >= Len(want)
               /\ SubSeq(cmds, 1, Len(want)) = want
               /\ \A k \in (Len(want) + 1)..Len(cmds) :
                    cmds[k] = StatusCmd(Svc.name)

\* C8 witness: the status query failed, install, three set commands and the
\* start were run with no stop and no remove, and the outcome is success.
C8_Witness ==
    /\ Returned /\ init_state = "Absent" /\ Unwrap(result).ok
    /\ outcomes[idx].ok
    /\ Len(ConfiguredCmds(Svc)) = 4
    /\ cmds[2][1] = "install" /\ "start" \in AllWords

\* C9: for a service found not stopped the stop command is run, and whether it
\* fails or not the stop poll is run next; once the poll has seen Stopped the
\* closure goes on with remove and install.  A failed stop leaves a warning
\* and nothing else.
C9_StopErrorTolerated ==
    (pc = "nssm_exec" /\ FoundNotStopped) =>
      /\ Len(cmds) = 1 <=> step = "stop"
      /\ Len(cmds) >= 2 => cmds[2] = StopCmd(Svc.name)
      /\ Len(cmds) = 2 =>
           /\ poll.expected = "Stopped" /\ poll.count = pending_stop_poll_count
           /\ poll.mark = 2 /\ poll.queries = 0
           /\ \/ step = "stop_poll" /\ result = None
              \/ poll.count = 0 /\ Returned /\ Failed(WaitMsg)
      /\ (Len(cmds) >= 3 /\ pending_stop_poll_count >= 1) =>
           cmds[3] = StatusCmd(Svc.name)
      /\ (poll.state = "ok" /\ poll.expected = "Stopped") => step = "remove"
      /\ \A k \in DOMAIN cmds :
           cmds[k][1] = "remove" =>
             /\ k >= 4 /\ cmds[k - 1] = StatusCmd(Svc.name)
             /\ Len(cmds) > k => cmds[k + 1] = InstallCmd(Svc)
      /\ ~Failed("Service stopping returned error")

\* C9 witness: the service was Running, the stop command failed with a
\* warning, the second query of the stop poll saw Stopped, remove and install
\* were run and the outcome is success.
C9_Witness ==
    /\ Returned /\ init_state = "Running" /\ Unwrap(result).ok
    /\ warnings = <<"Service stopping returned error">>
    /\ Len(cmds) >= 6
    /\ SubSeq(cmds, 1, 6) =
         <<StatusCmd(Svc.name), StopCmd(Svc.name), StatusCmd(Svc.name),
           StatusCmd(Svc.name), RemoveCmd(Svc.name), InstallCmd(Svc)>>

\* C10: when the stop poll times out the closure has made exactly
\* pending_stop_poll_count queries, returns the failure, and has run nothing
\* but status queries and the stop command; the service is logged FAILED.  A
\* later service is still logged by its own result.
C10_StopPollTimeoutFatal ==
    /\ (poll.state = "timeout" /\ poll.expected = "Stopped") =>
         /\ Returned /\ Failed(WaitMsg)
         /\ ~outcomes[idx].ok /\ outcomes[idx].name = Svc.name
         /\ poll.queries = pending_stop_poll_count
         /\ AllWords \subseteq {"status", "stop"}
    /\ (pc = "nssm_exec" /\ FoundNotStopped /\ "remove" \in AllWords) =>
         \E k \in 3..(Len(cmds) - 1) :
            /\ cmds[k + 1][1] = "remove"
            /\ k - 2 <= pending_stop_poll_count
            /\ \A j \in 3..k : cmds[j][1] = "status"
    /\ Returned => outcomes[idx].ok = Unwrap(result).ok

\* C10 witness: the first of several services was Running and its stop poll
\* used up the five default attempts: it is logged FAILED and the loop is back
\* at the zip with services left.
C10_Witness ==
    /\ Returned /\ idx = 1 /\ N >= 2
    /\ file_config.pending_stop_poll_count = None
    /\ init_state = "Running"
    /\ poll.state = "timeout" /\ poll.expected = "Stopped" /\ poll.queries = 5
    /\ outcomes = <<[name |-> "Foo", ok |-> FALSE, of |-> "Foo"]>>

\* The last command line the closure has run, and whether run_cmd gave an Err
\* for it.
LastCmd == cmds[Len(cmds)]

CmdFailed == last_reply # None /\ ~run_cmd(Unwrap(last_reply)).ok

\* The message the closure chains to the error of a remove, install or set
\* command line.
FatalMsg(argv) ==
    CASE argv[1] = "remove" -> "Unable to remove"
      [] argv[1] = "install" -> "Unable to install"
      [] argv[1] = "set" /\ argv[3] = "AppDirectory" ->
             "Unable to set startup directory for"
      [] argv[1] = "set" /\ argv[3] = "AppParameters" ->
             "Unable to set 'AppParameters' for"
      [] argv[1] = "set" /\ argv[3] = "Description" ->
             "Unable to set 'Description' for"
      [] argv[1] = "set" /\ argv[3] = "DependOnService" ->
             "Unable to set 'DependOnService' for"
      [] argv[1] = "set" /\ argv[3] = "ObjectName" ->
             "Unable to set the username and password for"

\* The last command line run is a remove, install or set command that failed.
FatalCmdFailed ==
    /\ pc = "nssm_exec" /\ cmds # <<>> /\ CmdFailed
    /\ LastCmd[1] \in {"remove", "install", "set"}

\* C11: when a remove, install or set command fails, the closure has returned
\* the failure chained with that command's message and the service is logged
\* FAILED; from then on no further command line is run for the service: the
\* list of its command lines stays as it is until the next service is
\* entered or the run ends.
C11_FatalCommandFailure ==
    /\ [](FatalCmdFailed =>
            /\ Returned /\ Failed(FatalMsg(LastCmd))
            /\ ~outcomes[idx].ok /\ outcomes[idx].name = Svc.name)
    /\ [][FatalCmdFailed => (cmds' = cmds \/ (cmds' = <<>> /\ service' # service))]_vars

\* C11 witness: the AppParameters set command of a service that also has a
\* description has failed; it is the last command line and no Description
\* command was run; an earlier remove had succeeded and install followed it.
C11_Witness ==
    /\ FatalCmdFailed /\ Returned
    /\ IsSome(Svc.args) /\ IsSome(Svc.description)
    /\ LastCmd = SetCmd(Svc.name, "AppParameters", Unwrap(Svc.args))
    /\ \A k \in DOMAIN cmds : cmds[k][1] = "set" => cmds[k][3] # "Description"
    /\ \E k \in DOMAIN cmds : cmds[k][1] = "remove"
    /\ ~outcomes[idx].ok

UnknownMsg == "Unable to obtain valid state from status string"

\* The last command line run is a status command that succeeded and printed a
\* token that is none of the seven status tokens.
UnknownToken ==
    /\ pc = "nssm_exec" /\ cmds # <<>> /\ LastCmd[1] = "status"
    /\ last_reply # None /\ run_cmd(Unwrap(last_reply)).ok
    /\ last_status = Some(Err(UnknownMsg))

\* C12 as stated: a status command that succeeds with a token outside the
\* status set aborts the service, whose outcome is failure.
C12_UnknownTokenIsFatal ==
    UnknownToken => Returned /\ ~Unwrap(result).ok /\ ~outcomes[idx].ok

\* C12 amended: a status command that succeeds with a token outside the
\* status set never fails the service by itself.  As the closure's first query
\* it makes the closure skip stop and remove and go on to install; inside a
\* poll it uses up one attempt as "not reached", and the service fails only
\* when the poll has used all its attempts, with the poll's own error.
C12_UnknownTokenNotFatal ==
    /\ UnknownToken =>
         \/ /\ Len(cmds) = 1 /\ step = "install" /\ init_state = "Absent"
            /\ result = None /\ Len(outcomes) = idx - 1
         \/ /\ Len(cmds) > 1 /\ poll.state = "running" /\ Polling
            /\ result = None /\ poll.results[Len(poll.results)] = FALSE
         \/ /\ Len(cmds) > 1 /\ poll.state = "timeout" /\ Returned
            /\ Failed(WaitMsg) /\ poll.queries = poll.count
    /\ ~Failed(UnknownMsg)

\* C12 witness: the closure's first status command printed the lower-case
\* word; the closure is at install with no outcome for the service.
C12_Witness ==
    /\ UnknownToken /\ step = "install" /\ Len(cmds) = 1
    /\ Unwrap(last_reply).stdout =
           <<115,101,114,118,105,99,101,95,115,116,111,112,112,101,100>>
    /\ result = None

OtherFields == {"deps", "start_on_create", "account"}

\* The value of field f the per-service block sets, else the one the global
\* block sets, else none.
Effective(f) ==
    IF Svc.other # None /\ Svc.other[1][f] # None THEN Svc.other[1][f]
    ELSE IF file_config.global # None /\ file_config.global[1][f] # None
         THEN file_config.global[1][f]
    ELSE None

\* The closure is past the statement of step s: it runs a later statement or
\* it has returned Ok.
Past(s) ==
    /\ pc = "nssm_exec"
    /\ \/ Returned /\ Unwrap(result).ok
       \/ step \in {"start_poll"}
       \/ step \in {ConfigureSteps[j] : j \in (StepIndex(s) + 1)..Len(ConfigureSteps)}

\* The DependOnService and ObjectName command lines run so far.
DepsCmds == {k \in DOMAIN cmds : cmds[k][1] = "set" /\ cmds[k][3] = "DependOnService"}

AcctCmds == {k \in DOMAIN cmds : cmds[k][1] = "set" /\ cmds[k][3] = "ObjectName"}

\* C13: for every per-service block and global block, absent or present, and
\* each of deps, start_on_create and account by itself, merge_other_conf gives
\* the per-service value when that block has the field, else the global value
\* when that block has it, else none; the DependOnService and ObjectName
\* command lines carry exactly those values.
C13_MergePerField ==
    service # None =>
      /\ \A f \in OtherFields :
           /\ merge_other_conf(Svc.other, file_config.global, f) = Effective(f)
           /\ merged_other(Svc)[f] = Effective(f)
      /\ \A k \in DepsCmds :
           Effective("deps") # None /\ cmds[k][4] = Effective("deps")[1]
      /\ \A k \in AcctCmds :
           Effective("account") # None
               /\ cmds[k][4] = Effective("account")[1].user
      /\ Past("deps") => (DepsCmds # {} <=> Effective("deps") # None)
      /\ Past("account") => (AcctCmds # {} <=> Effective("account") # None)

\* C13 witness: the per-service block is there with an account and a start
\* flag but no deps, the global block has deps and another account: the
\* closure has succeeded with the global deps and the service's account.
C13_Witness ==
    /\ Returned /\ Unwrap(result).ok
    /\ Svc.other # None /\ file_config.global # None
    /\ Svc.other[1].deps = None /\ Svc.other[1].account # None
    /\ file_config.global[1].account # None
    /\ \E k \in DepsCmds : cmds[k][4] = "Baz Qux"
    /\ \E k \in AcctCmds : cmds[k][4] = "svc"

\* The merged start_on_create is present and true.
StartWanted == Effective("start_on_create") = Some(TRUE)

\* C14: a start command is run, and a poll for Running is made, only when the
\* merged start_on_create is present and true, and a closure that succeeds
\* has run the start command exactly when it is; with start_on_create false
\* in the per-service block, or set in neither block, the closure installs
\* and configures the service and ends without a start and without a query
\* after install.
C14_StartIffMergedTrue ==
    service # None =>
      /\ "start" \in AllWords => StartWanted
      /\ (pc = "nssm_exec" /\ step \in {"start", "start_poll"}) => StartWanted
      /\ (poll.state # "none" /\ poll.expected = "Running") =>
           StartWanted /\ cmds[poll.mark] = StartCmd(Svc.name)
      /\ (Returned /\ Unwrap(result).ok) =>
           /\ "start" \in AllWords <=> StartWanted
           /\ "install" \in AllWords
           /\ ~StartWanted =>
                /\ LastCmd[1] \in {"install", "set"}
                /\ poll.expected # "Running"
      /\ (Svc.other # None /\ Svc.other[1].start_on_create = Some(FALSE)) =>
           ~StartWanted /\ "start" \notin AllWords

\* C14 witness: the per-service block says false and the global block says
\* true: the closure has succeeded with install as a command line and no
\* start.
C14_Witness ==
    /\ Returned /\ Unwrap(result).ok
    /\ Svc.other # None /\ Svc.other[1].start_on_create = Some(FALSE)
    /\ file_config.global # None
    /\ file_config.global[1].start_on_create = Some(TRUE)
    /\ "install" \in AllWords /\ "start" \notin AllWords

StartWarning == "Service starting returned error"

\* The closure has run its start command.
Started == pc = "nssm_exec" /\ service # None /\ "start" \in AllWords

\* The start command is the last command line and it failed.
StartFailed == Started /\ LastCmd = StartCmd(Svc.name) /\ CmdFailed

\* C15: a start command that fails leaves a warning and nothing else; failed
\* or not, the poll for Running with pending_start_poll_count attempts is
\* what follows.  The closure succeeds after a start only with a poll that
\* saw Running in a status query made after the start command, within the
\* count; when the poll has used all its attempts the closure fails.
C15_StartToleratedAndConfirmed ==
    Started =>
      /\ poll.state # "none" /\ poll.expected = "Running"
      /\ poll.count = pending_start_poll_count
      /\ cmds[poll.mark] = StartCmd(Svc.name)
      /\ \A k \in (poll.mark + 1)..Len(cmds) : cmds[k] = StatusCmd(Svc.name)
      /\ StartFailed =>
           /\ warnings # <<>> /\ warnings[Len(warnings)] = StartWarning
           /\ \/ step = "start_poll" /\ result = None
              \/ poll.count = 0 /\ Returned /\ Failed(WaitMsg)
      /\ ~Failed(StartWarning)
      /\ (Returned /\ Unwrap(result).ok) =>
           /\ poll.state = "ok"
           /\ Len(cmds) > poll.mark
           /\ Len(cmds) - poll.mark \in 1..pending_start_poll_count
           /\ last_status = Some(Ok("Running"))
      /\ poll.state = "timeout" =>
           /\ Returned /\ Failed(WaitMsg) /\ ~outcomes[idx].ok
           /\ poll.queries = pending_start_poll_count
      /\ Returned => poll.state \in {"ok", "timeout"}

\* C15 witness: the start command failed with a warning, the second query of
\* the start poll saw Running and the outcome is success.
C15_Witness ==
    /\ Started /\ Returned /\ Unwrap(result).ok /\ outcomes[idx].ok
    /\ warnings # <<>> /\ warnings[Len(warnings)] = StartWarning
    /\ poll.expected = "Running" /\ poll.queries = 2
    /\ last_status = Some(Ok("Running"))

\* The two-double-quote token.
EmptyQuoted == "\"\""

\* The blocks, per-service first, that are present and hold an account.
AccountScopes ==
    SelectSeq(<<Svc.other, file_config.global>>,
              LAMBDA b : b # None /\ b[1].account # None)

\* C16: an ObjectName command line is run exactly when the merged account is
\* present, and at most once; its user and its password are those of one
\* Account, the per-service one when there is one and else the global one;
\* it always has a password word, which is the two-double-quote token when
\* the password is the empty string and the password otherwise.
C16_ObjectNameCommand ==
    service # None =>
      /\ Cardinality(AcctCmds) <= 1
      /\ Past("account") => (AcctCmds # {} <=> AccountScopes # <<>>)
      /\ \A k \in AcctCmds :
           /\ AccountScopes # <<>>
           /\ LET account == AccountScopes[1][1].account[1]
              IN  /\ Len(cmds[k]) = 5
                  /\ SubSeq(cmds[k], 1, 4) =
                         <<"set", Svc.name, "ObjectName", account.user>>
                  /\ cmds[k][5] # ""
                  /\ account.password = "" => cmds[k][5] = EmptyQuoted
                  /\ account.password # "" => cmds[k][5] = account.password

\* C16 witness: the service's account has the empty password and the global
\* block has another account with a password: the command line run is
\* set Foo ObjectName svc "".
C16_Witness ==
    /\ service # None /\ Len(AccountScopes) = 2
    /\ Svc.other[1].account[1].password = ""
    /\ file_config.global[1].account[1].password = "pw"
    /\ \E k \in AcctCmds :
          cmds[k] = <<"set", "Foo", "ObjectName", "svc", EmptyQuoted>>

InstallCmds == {k \in DOMAIN cmds : cmds[k][1] = "install"}

AppDirCmds == {k \in DOMAIN cmds : cmds[k][1] = "set" /\ cmds[k][3] = "AppDirectory"}

TokenState(text) ==
    CASE text = TokStopped -> "Stopped"
      [] text = TokStartPending -> "StartPending"
      [] text = TokStopPending -> "StopPending"
      [] text = TokRunning -> "Running"
      [] text = TokContinuePending -> "ContinuePending"
      [] text = TokPausePending -> "PausePending"
      [] text = TokPaused -> "Paused"

\* full[i..j] is full without its leading and trailing white space.
Stripped(full, i, j) ==
    /\ i <= j + 1
    /\ \A k \in 1..(i - 1) : IsWhitespace(full[k])
    /\ \A k \in (j + 1)..Len(full) : IsWhitespace(full[k])
    /\ i <= j => ~IsWhitespace(full[i]) /\ ~IsWhitespace(full[j])

\* The closure has made its first status query and the command succeeded.
FirstQueryRan ==
    /\ pc = "nssm_exec" /\ Len(cmds) = 1 /\ step # "status"
    /\ last_reply # None /\ run_cmd(last_reply[1]).ok

\* C19: state_from_str gives each of the seven tokens its own state, no two
\* the same, and an error for any other text; what a status command printed,
\* once its zero bytes are dropped and it is valid UTF-8, is interpreted by
\* its text without the surrounding white space: one of the seven tokens gives
\* that token's state and anything else (another letter case, extra
\* characters, nothing) the error.
C19_StatusInterpreter ==
    /\ \A t \in Tokens : state_from_str(t) = Ok(TokenState(t))
    /\ \A t, u \in Tokens : t # u => state_from_str(t) # state_from_str(u)
    /\ FirstQueryRan =>
         LET clean == SelectSeq(last_reply[1].stdout, LAMBDA c : c # 0)
         IN  Utf8From(clean, 1) =>
               \E i \in 1..(Len(clean) + 1), j \in 0..Len(clean) :
                  /\ Stripped(clean, i, j)
                  /\ LET text == SubSeq(clean, i, j)
                     IN  /\ last_status = Some(state_from_str(text))
                         /\ text \in Tokens =>
                              /\ last_status = Some(Ok(TokenState(text)))
                              /\ init_state = TokenState(text)
                         /\ text \notin Tokens =>
                              /\ last_status = Some(Err(UnknownMsg))
                              /\ init_state = "Absent"

\* C19 witness: the first status command printed SERVICE_PAUSED inside white
\* space and the closure found the service Paused.
C19_Witness ==
    /\ FirstQueryRan
    /\ last_reply[1].stdout = <<32, 9>> \o TokPaused \o <<32, 13, 10>>
    /\ last_status = Some(Ok("Paused")) /\ init_state = "Paused"
    /\ step = "stop"

\* The count and the interval of each direction as the document gives them,
\* 5 and 500 ms when it leaves them out.
StopCount ==
    IF file_config.pending_stop_poll_count = None THEN 5
    ELSE file_config.pending_stop_poll_count[1]

StopInterval ==
    IF file_config.pending_stop_poll_ms = None THEN 500
    ELSE file_config.pending_stop_poll_ms[1]

StartCount ==
    IF file_config.pending_start_poll_count = None THEN 5
    ELSE file_config.pending_start_poll_count[1]

StartInterval ==
    IF file_config.pending_start_poll_ms = None THEN 500
    ELSE file_config.pending_start_poll_ms[1]

\* The status queries made since the poll was called.
PollQueries == {k \in (poll.mark + 1)..Len(cmds) : cmds[k][1] = "status"}

\* C20: the poll after the stop command waits for Stopped with the stop
\* count and the stop interval, the poll after the start command waits for
\* Running with the start count and the start interval; each value is the
\* document's, or 5 and 500 ms when the document leaves it out, whatever the
\* other direction has; a poll makes at most its count of queries and every
\* sleep lasts its interval.
C20_PollParametersPerDirection ==
    /\ (pc = "nssm_exec" /\ step = "stop_poll") =>
         poll.state = "running" /\ poll.expected = "Stopped"
    /\ (pc = "nssm_exec" /\ step = "start_poll") =>
         poll.state = "running" /\ poll.expected = "Running"
    /\ poll.state # "none" =>
         /\ poll.expected \in {"Stopped", "Running"}
         /\ poll.expected = "Stopped" =>
              /\ cmds[poll.mark] = StopCmd(Svc.name)
              /\ poll.count = StopCount /\ poll.interval = StopInterval
         /\ poll.expected = "Running" =>
              /\ cmds[poll.mark] = StartCmd(Svc.name)
              /\ poll.count = StartCount /\ poll.interval = StartInterval
         /\ Cardinality(PollQueries) = poll.queries
         /\ poll.queries <= poll.count
         /\ poll.waited = poll.sleeps * poll.interval

\* C20 witness: the document sets the stop interval to 10 ms and the start
\* count to 1 and leaves the stop count and the start interval out; the stop
\* poll has timed out after 5 queries and 40 ms of sleep.
C20_Witness ==
    /\ file_config.pending_stop_poll_ms = Some(10)
    /\ file_config.pending_stop_poll_count = None
    /\ file_config.pending_start_poll_ms = None
    /\ file_config.pending_start_poll_count = Some(1)
    /\ poll.state = "timeout" /\ poll.expected = "Stopped"
    /\ poll.queries = 5 /\ poll.waited = 40

\* C17: against the well-behaved tool, a run that finds each service either
\* not there (the first run) or in the state a successful run over the same
\* document has left (the second run) gives every service the outcome
\* success and leaves it, for the tool, installed, configured and running or
\* stopped exactly as the document asks: the second run ends in the state the
\* first has left.  No command is one the tool cannot carry out.
C17_Idempotent ==
    /\ (pc = "nssm_exec" /\ service # None) => NssmNow.kind # "broken"
    /\ Returned =>
         /\ Unwrap(result).ok /\ outcomes[idx].ok
         /\ NssmNow = Configured(Svc)
    /\ RunCompleted =>
         Len(outcomes) = N /\ \A i \in DOMAIN outcomes : outcomes[i].ok

\* C17 witness: the second of two services was found Running as the first
\* run has left it, with three parameters set; it was stopped, removed,
\* installed and configured again and started, the outcome is success and the
\* tool's state is the one it was found in.
C17_Witness ==
    /\ Returned /\ idx = 2 /\ outcomes[1].ok /\ outcomes[2].ok
    /\ init_state = "Running"
    /\ Len(ConfiguredCmds(Svc)) = 4
    /\ {"stop", "remove", "install", "set", "start"} \subseteq AllWords
    /\ NssmBefore = Configured(Svc) /\ NssmNow = NssmBefore

\* C21: when the first status query of a service gives Stopped, no stop
\* command is run for it and no stop poll is made: right after the query the
\* closure is at the remove, the second command line is "remove <name>
\* confirm", and a further status query comes only after the start command.
C21_StoppedSkipsStop ==
    (pc = "nssm_exec" /\ init_state = "Stopped") =>
      /\ cmds[1] = StatusCmd(Svc.name)
      /\ "stop" \notin AllWords
      /\ Len(cmds) = 1 <=> step = "remove"
      /\ Len(cmds) >= 2 => cmds[2] = RemoveCmd(Svc.name)
      /\ poll.state # "none" => poll.expected = "Running"
      /\ \A k \in 2..Len(cmds) :
           cmds[k][1] = "status" => "start" \in Words(k - 1)

\* C21 witness: a service found Stopped was removed by the second command
\* line and installed by the third, with no stop, and the closure returned.
C21_Witness ==
    /\ Returned /\ init_state = "Stopped"
    /\ Len(cmds) >= 3
    /\ cmds[2] = RemoveCmd(Svc.name) /\ cmds[3] = InstallCmd(Svc)
    /\ "stop" \notin AllWords

\* The step runs "remove <name> confirm".
RemoveIssued ==
    /\ Len(cmds') = Len(cmds) + 1
    /\ cmds'[Len(cmds')] = RemoveCmd(Svc.name)

\* The stop poll of the closure ran out of attempts.
StopPollTimedOut ==
    Returned /\ poll.expected = "Stopped" /\ poll.state = "timeout"

\* C22: whenever the remove is run for a service, the command line before it
\* is a status query of that service, and that query succeeded and gave
\* Stopped: the first query, or the query that ended the stop poll.  A
\* service whose first query failed or whose stop poll timed out has no
\* remove among its command lines, and a service found in another state has
\* one only after a stop poll that saw Stopped.
C22_RemoveOnlyAfterStopped ==
    /\ [][RemoveIssued =>
            /\ cmds # <<>> /\ cmds[Len(cmds)] = StatusCmd(Svc.name)
            /\ last_status = Some(Ok("Stopped"))
            /\ IF init_state = "Stopped" THEN Len(cmds) = 1
               ELSE /\ FoundNotStopped
                    /\ poll.expected = "Stopped" /\ poll.state = "ok"
                    /\ poll.results[Len(poll.results)]]_vars
    /\ []((pc = "nssm_exec" /\ service # None) =>
            /\ init_state = "Absent" => "remove" \notin AllWords
            /\ StopPollTimedOut => "remove" \notin AllWords
            /\ \A k \in DOMAIN cmds :
                 cmds[k][1] = "remove" => k > 1 /\ cmds[k - 1][1] = "status")

\* C22 witness: a service found Running was stopped, its stop poll saw
\* Stopped, and the remove was run right after that query.
C22_Witness ==
    /\ pc = "nssm_exec" /\ service # None
    /\ init_state = "Running"
    /\ Len(cmds) >= 4
    /\ cmds[2] = StopCmd(Svc.name)
    /\ cmds[Len(cmds)] = RemoveCmd(Svc.name)
    /\ cmds[Len(cmds) - 1] = StatusCmd(Svc.name)

\* The place of a command line in the fixed sequence of the closure; a status
\* query has none of its own.
Rank(argv) ==
    CASE argv[1] = "stop" -> 1
      [] argv[1] = "remove" -> 2
      [] argv[1] = "install" -> 3
      [] argv[1] = "set" ->
             (CASE argv[3] = "AppDirectory" -> 4
                [] argv[3] = "AppParameters" -> 5
                [] argv[3] = "Description" -> 6
                [] argv[3] = "DependOnService" -> 7
                [] argv[3] = "ObjectName" -> 8)
      [] argv[1] = "start" -> 9
      [] OTHER -> 0

\* The positions of cmds that hold no status query.
Changes == {k \in DOMAIN cmds : cmds[k][1] # "status"}

\* The step runs one more command line.
CmdIssued == Len(cmds') = Len(cmds) + 1

\* C23: the command lines of one service are a prefix of status, [stop,
\* status*], [remove], install, [set AppDirectory], [set AppParameters],
\* [set Description], [set DependOnService], [set ObjectName], [start,
\* status*]: the first is the status query, the others than status come in
\* strictly rising place (so each at most once), and a later status query
\* follows the stop or the start with only status queries in between.  A set
\* or start comes after an install, the start comes after install and every
\* configured set, and a command line that follows a remove, an install or a
\* set follows a successful one.
C23_CommandOrder ==
    /\ []((pc = "nssm_exec" /\ service # None) =>
            /\ cmds # <<>> => cmds[1] = StatusCmd(Svc.name)
            /\ \A j, k \in Changes : j < k => Rank(cmds[j]) < Rank(cmds[k])
            /\ \A k \in 2..Len(cmds) :
                 cmds[k][1] = "status" =>
                     \E j \in 1..(k - 1) :
                         /\ cmds[j][1] \in {"stop", "start"}
                         /\ \A i \in (j + 1)..k : cmds[i][1] = "status"
            /\ \A k \in Changes :
                 Rank(cmds[k]) > 3 =>
                     \E j \in 1..(k - 1) : cmds[j] = InstallCmd(Svc)
            /\ \A k \in DOMAIN cmds :
                 cmds[k][1] = "start" =>
                     LET want == <<InstallCmd(Svc)>> \o ConfiguredCmds(Svc)
                     IN  /\ k >= Len(want)
                         /\ SubSeq(cmds, k + 1 - Len(want), k) = want)
    /\ [][(CmdIssued /\ cmds # <<>>
              /\ cmds[Len(cmds)][1] \in {"remove", "install", "set"}) =>
            run_cmd(last_reply[1]).ok]_vars

\* C23 witness: a service found Running went through the whole sequence:
\* stop, stop poll, remove, install, the five set commands, start and start
\* poll, and succeeded.
C23_Witness ==
    /\ Returned /\ Unwrap(result).ok
    /\ {Rank(cmds[k]) : k \in Changes} = 1..9
    /\ cmds[3] = StatusCmd(Svc.name)
    /\ cmds[Len(cmds)] = StatusCmd(Svc.name)

\* The positions of cmds that hold a status query.
Queries == {k \in DOMAIN cmds : cmds[k][1] = "status"}

\* C24: the run ends, whatever the tool answers, and the closure of one
\* service runs at most 11 + pending_stop_poll_count +
\* pending_start_poll_count command lines, at most 1 + pending_stop_poll_count
\* + pending_start_poll_count of them status queries; no other command line
\* is run twice, and neither poll makes more queries than its count.
C24_BoundedWork ==
    /\ []((pc = "nssm_exec" /\ service # None) =>
            /\ Len(cmds) <=
                   11 + pending_stop_poll_count + pending_start_poll_count
            /\ Cardinality(Queries) <=
                   1 + pending_stop_poll_count + pending_start_poll_count
            /\ \A j, k \in Changes : cmds[j] = cmds[k] => j = k
            /\ poll.queries <= poll.count)
    /\ <>(pc = "exit")

\* C24 witness: a closure has run every command line there is, with both
\* polls used up to their last attempt: 10 command lines and the queries of
\* the two polls.
C24_Witness ==
    /\ Returned
    /\ pending_stop_poll_count >= 1 /\ pending_start_poll_count >= 1
    /\ Len(cmds) = 10 + pending_stop_poll_count + pending_start_poll_count
    /\ Cardinality(Queries) =
           1 + pending_stop_poll_count + pending_start_poll_count
    /\ idx = N

\* A call of poll_service_status_until_empty is in progress or has ended.
LegacyPolled == pc = "nssm_exec" /\ poll.expected = "NotStopPending"

\* C25: poll_service_status_until_empty of main.rs makes at most poll_count
\* status queries and sleeps only between two queries: no sleep is due once
\* the last query is made, and a wait in which no query succeeds fails after
\* poll_count queries and poll_count - 1 sleeps.
C25_LegacySleepsOnlyBetweenQueries ==
    LegacyPolled =>
      /\ poll.queries <= poll.count
      /\ step = "legacy_sleep" => poll.queries < poll.count
      /\ (poll.state = "timeout" /\ poll.count >= 1) =>
           /\ poll.queries = poll.count
           /\ poll.sleeps = poll.count - 1

\* C26: in main.rs, for a service that is there and not stopped, the wait
\* after the stop command is over only when a status query gave
\* SERVICE_STOPPED: the closure is at the remove only with that text as the
\* result of its last query.
C26_LegacyRemoveOnlyAfterStopped ==
    (At("remove") /\ init_state = "NotStopped") =>
      /\ poll.state = "ok"
      /\ last_status = Some(Ok(SERVICE_STOPPED_STATUS))

\* C25 witness: a wait of one attempt has failed after one query and one
\* sleep, the sleep made after the only query.
C25_Witness ==
    /\ LegacyPolled /\ Returned
    /\ poll.state = "timeout" /\ poll.count = 1
    /\ poll.queries = 1 /\ poll.sleeps = 1

\* C26 witness: a service found not stopped was stopped, the wait ended on a
\* query that gave SERVICE_RUNNING, and the closure is about to remove it.
C26_Witness ==
    /\ At("remove") /\ init_state = "NotStopped"
    /\ cmds[2] = StopCmd(Svc.name)
    /\ poll.state = "ok"
    /\ last_status = Some(Ok(TokRunning))

\* The step runs the first command line of a closure call, or one more.
CmdRun == cmds' # cmds /\ cmds' # <<>>

\* C27: the outcome of a service is logged as its closure returns, after its
\* last command line and before any command line of the next service: a step
\* logs at most one outcome, that of the closure in progress, in the step in
\* which that closure returns, and whenever a command line is run for the
\* idx-th service exactly the idx - 1 services before it have their outcome
\* logged.  So in every state the services whose closure has returned are
\* the services with a logged outcome.
C27_OutcomesInterleaved ==
    /\ [][outcomes' # outcomes =>
            /\ outcomes' = Append(outcomes, outcomes'[Len(outcomes')])
            /\ Len(outcomes') = idx /\ step # "next" /\ step' = "next"
            /\ result = None /\ result' # None
            /\ outcomes'[idx].ok = result'[1].ok
            /\ outcomes'[idx].name = Svc.name]_vars
    /\ [][CmdRun =>
            /\ Len(outcomes) = idx' - 1
            /\ \A k \in DOMAIN cmds' : cmds'[k][2] = file_config.services[idx']]_vars
    /\ []((pc = "nssm_exec" /\ service # None) =>
            /\ result # None <=> Len(outcomes) = idx
            /\ result = None <=> Len(outcomes) = idx - 1)

\* C27 witness: the first of two services has failed and its outcome is
\* logged while the second service has had only its status query run.
C27_Witness ==
    /\ pc = "nssm_exec" /\ N = 2 /\ idx = 2
    /\ cmds = <<StatusCmd("Bar")>>
    /\ Len(outcomes) = 1 /\ ~outcomes[1].ok /\ outcomes[1].name = "Foo"
    /\ result = None

\* The places of bytes that hold a byte other than zero.
NonZeroAt(bytes) == {i \in DOMAIN bytes : bytes[i] # 0}

\* The k-th of those places, counted from the front.
KthNonZero(bytes, k) ==
    CHOOSE i \in NonZeroAt(bytes) :
        Cardinality({j \in NonZeroAt(bytes) : j <= i}) = k

\* C28: remove_zeros gives the bytes of its input other than zero, each once
\* and in the order they have there; its result holds no zero byte and is left
\* as it is by a second remove_zeros.  So what the first status command
\* printed is interpreted as the same output without its zero bytes is, and
\* as that output with a zero after every byte or before every byte is.
C28_RemoveZeros ==
    FirstQueryRan =>
      LET reply == last_reply[1]
          bytes == reply.stdout
          out == remove_zeros(bytes)
          With(s) == [reply EXCEPT !.stdout = s]
      IN  /\ Len(out) = Cardinality(NonZeroAt(bytes))
          /\ \A k \in DOMAIN out : out[k] = bytes[KthNonZero(bytes, k)]
          /\ \A k \in DOMAIN out : out[k] # 0
          /\ remove_zeros(out) = out
          /\ last_status = Some(run_nssm_status_cmd_extract_status(With(out)))
          /\ last_status =
                 Some(run_nssm_status_cmd_extract_status(With(Wide(out))))
          /\ last_status =
                 Some(run_nssm_status_cmd_extract_status(With(ZeroBefore(out))))

\* C28 witness: the first status command printed SERVICE_RUNNING and a line
\* end with a zero before every byte, and the closure found the service
\* Running.
C28_Witness ==
    /\ FirstQueryRan
    /\ last_reply[1].stdout = ZeroBefore(TokRunning \o <<13, 10>>)
    /\ Len(remove_zeros(last_reply[1].stdout)) = Len(TokRunning) + 2
    /\ last_status = Some(Ok("Running")) /\ init_state = "Running"

====
